---- MODULE Spec2Model ----
(***************************************************************************)
(* Smartfile-Flow: the classification-and-sorting pipeline.                *)
(*                                                                         *)
(* Texts are sequences of one-character strings.  Rule scores and weights  *)
(* are kept in tenths (2.0 is 20, the 0.2 repetition bonus is 2).  A       *)
(* confidence is a record [d, q, e] standing for the double next to the    *)
(* real number d / sqrt(q): e is 0 when the double is that number (or its  *)
(* correctly rounded value), -1 when it lies just below and 1 when it lies *)
(* just above.  A rule score of s tenths is [d |-> s, q |-> 100, e |-> 0], *)
(* a cosine similarity has d = dot and q = |v1|^2 * |v2|^2.                *)
(***************************************************************************)
EXTENDS Integers, Sequences, FiniteSets, TLC

VARIABLES
    \* config.settings (src/src/config.py SettingsConfig) and config.categories
    conflict_resolution, copy_files, use_ml,
    min_confidence_score, ml_confidence_threshold, categories,
    \* the MLClassifier of the FileSorter (see Classifier below) and the files
    \* of its models_dir: [pretrained, local, vectors]
    ml, models_dir,
    \* the optional libraries that can be imported
    installed,
    \* the file system: the files of the directory RawDir, and the tree of the
    \* directory the FileSorter sorts into: target files, target folders,
    \* read-only folders, target files that belong to another user
    source, target, folders, readonly, foreign,
    \* the fields source_dir and target_dir of the FileSorter, and the tree
    \* [target, folders, readonly, foreign] of the other directory of TargetDirs
    source_dir, target_dir, elsewhere,
    \* the locals of the loop iteration a worker thread is in (see NoFrame)
    frame,
    \* one sort_all call: position, scanned files, counters, returned statistics
    pc, files, idx, sorted_count, failed_count, skipped_count, by_category,
    ml_used, rules_used, stats, run,
    \* what happened to each file of the current run (observation only)
    history,
    \* the last direct call of a single method and what it returned
    probe,
    \* the _shape_warning_emitted flag of the current MLClassifier instance and
    \* the dimension-mismatch warnings in the log of the process
    _shape_warning_emitted, shape_warnings,
    \* AppController (src/gui/core/app_controller.py): the _is_sorting flag,
    \* the signals sortingStarted and sortingFinished emitted so far, the
    \* worker threads started so far, the directories chosen in the window
    \* and the statistics of the last run
    _is_sorting, signals, workers, _source_dir, _target_dir,
    _total, _sorted, _skipped, _failed

vars == <<conflict_resolution, copy_files, use_ml, min_confidence_score,
          ml_confidence_threshold, categories, ml, models_dir, installed, source,
          target, folders, readonly, foreign, source_dir, target_dir, elsewhere, frame,
          pc, files, idx, sorted_count, failed_count, skipped_count,
          by_category, ml_used, rules_used, stats, run, history, probe,
          _shape_warning_emitted, shape_warnings, _is_sorting, signals, workers,
          _source_dir, _target_dir, _total, _sorted, _skipped, _failed>>

configVars == <<conflict_resolution, copy_files, use_ml, min_confidence_score,
                ml_confidence_threshold, categories>>
mlVars == <<ml, models_dir>>
logVars == <<_shape_warning_emitted, shape_warnings>>
shownVars == <<_total, _sorted, _skipped, _failed>>
chosenVars == <<_source_dir, _target_dir>>
guiVars == <<_is_sorting, signals, workers, chosenVars, shownVars>>
dirVars == <<source_dir, target_dir, elsewhere>>
fsVars == <<source, target, folders, readonly, foreign, installed>>
runVars == <<pc, files, idx, sorted_count, failed_count, skipped_count,
             by_category, ml_used, rules_used, stats, run, history>>

(***************************************************************************)
(* Bounds of the model.                                                    *)
(***************************************************************************)
MaxFiles == 2
MaxBatch == 3
MaxTextLen == 2
MaxRuns == 2
MaxCounter == 2
MaxCalls == 3
MaxDim == 2
MaxSlots == 4

\* SettingsConfig defaults, in tenths
MinConfidenceDefault == 10
MLThresholdDefault == 7

(***************************************************************************)
(* Strings.                                                                *)
(***************************************************************************)
\* str.lower(): the one upper-case letter of the alphabet is "W".
LowerChar(c) == IF c = "W" THEN "w" ELSE c
Lower(text) == [i \in 1..Len(text) |-> LowerChar(text[i])]

IsSpace(c) == c = " "

\* bool(text.strip()): some character is not white space.
StripNonEmpty(text) == \E i \in 1..Len(text) : ~IsSpace(text[i])

\* kw occurs in text at position i.
OccursAt(text, kw, i) ==
    /\ i + Len(kw) - 1 <= Len(text)
    /\ \A j \in 1..Len(kw) : text[i + j - 1] = kw[j]

\* str.count(kw): non-overlapping occurrences, scanning from the left;
\* the empty string is counted len(text) + 1 times.
RECURSIVE CountFrom(_, _, _)
CountFrom(text, kw, i) ==
    IF i + Len(kw) - 1 > Len(text) THEN 0
    ELSE IF OccursAt(text, kw, i) THEN 1 + CountFrom(text, kw, i + Len(kw))
    ELSE CountFrom(text, kw, i + 1)

Count(text, kw) == IF Len(kw) = 0 THEN Len(text) + 1 ELSE CountFrom(text, kw, 1)

(***************************************************************************)
(* Confidences: [d, q, e] is d / sqrt(q), q > 0, moved by less than any    *)
(* difference between two such numbers in the direction e.                 *)
(***************************************************************************)
Score(s) == [d |-> s, q |-> 100, e |-> 0]
Zero == [d |-> 0, q |-> 1, e |-> 0]
One == [d |-> 1, q |-> 1, e |-> 0]
MinusOne == [d |-> -1, q |-> 1, e |-> 0]
Abs(x) == IF x < 0 THEN -x ELSE x
\* x |-> x*|x| is strictly increasing, so it decides every comparison.
SignedSq(x) == x * Abs(x)
ConfGT(a, b) ==
    \/ SignedSq(a.d) * b.q > SignedSq(b.d) * a.q
    \/ SignedSq(a.d) * b.q = SignedSq(b.d) * a.q /\ a.e > b.e
ConfEQ(a, b) == SignedSq(a.d) * b.q = SignedSq(b.d) * a.q /\ a.e = b.e
\* a >= t/10 for a threshold of t tenths
ConfGEtenths(a, t) ==
    \/ 100 * SignedSq(a.d) > SignedSq(t) * a.q
    \/ 100 * SignedSq(a.d) = SignedSq(t) * a.q /\ a.e >= 0

(***************************************************************************)
(* Configuration: the category sets a config.yaml can load.                *)
(***************************************************************************)
Kw(k, w) == [kw |-> k, weight |-> w]
Cat(n, ks) == [name |-> n, keywords |-> ks]

\* the category written by _create_default_config: three keywords of
\* weights 2.0, 1.5, 1.5, none a part of another
WorkCat == Cat("work", <<Kw(<<"w">>, 20), Kw(<<"p">>, 15), Kw(<<"z">>, 15)>>)
FinanceCat == Cat("finance", <<Kw(<<"f">>, 5)>>)
OtherCat == Cat("other", <<Kw(<<"x">>, 30)>>)

\* no config.yaml yet: _load_config writes the default file and loads nothing
CatsNone == <<>>
\* the default file read back on the next start: work only
CatsDefault == <<WorkCat>>
CatsFull == <<WorkCat, FinanceCat, OtherCat>>
CategorySets == {CatsNone, CatsDefault, CatsFull}

get_category_names == [i \in 1..Len(categories) |-> categories[i].name]

get_weighted_keywords(category_name) ==
    IF \E i \in 1..Len(categories) : categories[i].name = category_name
    THEN (CHOOSE c \in {categories[i] : i \in 1..Len(categories)} :
              c.name = category_name).keywords
    ELSE <<>>

Policies == {"skip", "overwrite", "rename"}
\* a value the validation of _load_config would have replaced
UnknownPolicy == "merge"

(***************************************************************************)
(* RuleClassifier: FileSorter.categorize_with_rules.                       *)
(***************************************************************************)
NoneCat == "<None>"
Result(c, conf) == [category |-> c, confidence |-> conf]

\* count * weight without the bonus for repeated occurrences
KeywordScoreNoBonus(text_lower, k) == Count(text_lower, k.kw) * k.weight

\* count * weight, plus count * 0.2 when the keyword occurs more than once
KeywordScore(text_lower, k) ==
    LET count == Count(text_lower, k.kw)
    IN  count * k.weight + (IF count > 1 THEN count * 2 ELSE 0)

RECURSIVE SumScores(_, _, _)
SumScores(text_lower, ks, i) ==
    IF i > Len(ks) THEN 0
    ELSE KeywordScore(text_lower, ks[i]) + SumScores(text_lower, ks, i + 1)

CategoryScore(text, category_name) ==
    SumScores(Lower(text), get_weighted_keywords(category_name), 1)

\* category_scores without the min_confidence_score test
EligibleNoMinimum(text) ==
    SelectSeq(get_category_names, LAMBDA n : n /= "other")

\* the keys of category_scores, in insertion order
Eligible(text) ==
    SelectSeq(get_category_names,
              LAMBDA n : /\ n /= "other"
                         /\ CategoryScore(text, n) >= min_confidence_score)

\* category_scores as (name, score) pairs, in insertion order
ScoresOf(text, names) ==
    [i \in 1..Len(names) |-> [name |-> names[i], score |-> CategoryScore(text, names[i])]]

\* a maximum that keeps the last key with the highest score
BestOfLast(scores) ==
    scores[CHOOSE i \in 1..Len(scores) :
               /\ \A j \in 1..Len(scores) : scores[j].score <= scores[i].score
               /\ \A j \in (i + 1)..Len(scores) : scores[j].score < scores[i].score]

\* max(keys, key=score): the first key with the highest score
BestOf(scores) ==
    scores[CHOOSE i \in 1..Len(scores) :
               /\ \A j \in 1..Len(scores) : scores[j].score <= scores[i].score
               /\ \A j \in 1..(i - 1) : scores[j].score < scores[i].score]

BestResult(best) == Result(best.name, Score(best.score))

\* categorize_with_rules without the early return for the empty text
RulesResultNoEmptyCheck(text, scores) ==
    IF Len(scores) > 0 THEN BestResult(BestOf(scores))
    ELSE Result("other", Score(0))

RulesResult(text, scores) ==
    IF Len(text) = 0 THEN Result("other", Score(0))
    ELSE IF Len(scores) > 0 THEN BestResult(BestOf(scores))
    ELSE Result("other", Score(0))

categorize_with_rules(text) == RulesResult(text, ScoresOf(text, Eligible(text)))

(***************************************************************************)
(* VectorModel: MLClassifier.                                              *)
(***************************************************************************)
Entry(k, v) == [key |-> k, vec |-> v]
Ref(c, v) == [category |-> c, vector |-> v]

\* A model object: kind "w2v" is a gensim Word2Vec (its keys are under .wv),
\* kind "kv" a KeyedVectors (its keys are on the object), "none" is None.
\* A locally trained space has vector_size 100 and the pretrained one 300;
\* here they are 2 and 3.
Model(kind, vocab, size) == [kind |-> kind, vocab |-> vocab, vector_size |-> size]
NoModel == Model("none", {}, 0)

\* a locally trained Word2Vec space and a pretrained KeyedVectors space whose
\* entries carry part-of-speech tags
LocalVocab == {Entry(<<"w">>, <<1, 0>>), Entry(<<"x">>, <<0, 1>>),
               Entry(<<"f">>, <<-1, -1>>)}
PretrainedVocab == {Entry(<<"w", "_NOUN">>, <<1, 0, 0>>), Entry(<<"x">>, <<0, 1, 0>>),
                    Entry(<<"f", "_VERB">>, <<-1, -1, 0>>)}
\* category_vectors.json as saved with the local space: work, and a category
\* no config names; and as saved with the pretrained space
SavedVectors == <<Ref("work", <<1, 0>>), Ref("travel", <<0, 1>>)>>
PretrainedVectors == <<Ref("work", <<1, 0, 0>>), Ref("travel", <<0, 1, 0>>)>>

\* MLClassifier fields; model is flattened into has_model, kind, vector_size, vocab
Classifier(trained, model, pretrained, refs, use_pretrained) ==
    [is_trained |-> trained, has_model |-> model.kind /= "none",
     is_pretrained |-> pretrained, kind |-> model.kind,
     vector_size |-> model.vector_size, vocab |-> model.vocab,
     category_vectors |-> refs, use_pretrained |-> use_pretrained]

MLUntrained == Classifier(FALSE, NoModel, FALSE, <<>>, TRUE)
MLLocal == Classifier(TRUE, Model("w2v", LocalVocab, 2), FALSE, SavedVectors, TRUE)
MLPretrained ==
    Classifier(TRUE, Model("kv", PretrainedVocab, 3), TRUE, PretrainedVectors, TRUE)
\* a model loaded without category_vectors.json
MLNoVectors == Classifier(TRUE, Model("w2v", LocalVocab, 2), FALSE, <<>>, TRUE)
\* a local model whose only reference vector is the opposite of the vector
\* of the word x
OpposedVectors == <<Ref("travel", <<0, -1>>)>>
MLOpposed == Classifier(TRUE, Model("w2v", LocalVocab, 2), FALSE, OpposedVectors, TRUE)
MLStates == {MLUntrained, MLLocal, MLPretrained, MLNoVectors, MLOpposed}

\* re.sub(r'[^\w\s]', ' ', text.lower())
IsWordChar(c) == c \notin {" ", ".", ","}
Clean(text) == [i \in 1..Len(text) |->
                   IF IsWordChar(LowerChar(text[i])) THEN LowerChar(text[i]) ELSE " "]

\* str.split(): the maximal runs of non-space characters
RECURSIVE SplitFrom(_, _, _)
SplitFrom(text, i, cur) ==
    IF i > Len(text) THEN (IF Len(cur) > 0 THEN <<cur>> ELSE <<>>)
    ELSE IF IsSpace(text[i])
         THEN (IF Len(cur) > 0 THEN <<cur>> ELSE <<>>) \o SplitFrom(text, i + 1, <<>>)
         ELSE SplitFrom(text, i + 1, Append(cur, text[i]))

tokenize_text(text) == IF Len(text) = 0 THEN <<>> ELSE SplitFrom(Clean(text), 1, <<>>)

\* the key_to_index the lookups see: model.key_to_index when is_pretrained,
\* model.wv.key_to_index otherwise; {} when the object has no such attribute
KeyIndex(m) ==
    IF m.is_pretrained THEN (IF m.kind = "kv" THEN m.vocab ELSE {})
    ELSE (IF m.kind = "w2v" THEN m.vocab ELSE {})

InVocab(m, key) == \E e \in KeyIndex(m) : e.key = key
VecOf(m, key) == (CHOOSE e \in KeyIndex(m) : e.key = key).vec

Tags == <<"_NOUN", "_VERB", "_ADJ", "_ADV", "_PRON", "_DET", "_PREP", "_CONJ">>
IsVowel(c) == c = "a"

\* str.rstrip(vowels): every trailing vowel is removed
RECURSIVE RStrip(_)
RStrip(word) ==
    IF Len(word) > 0 /\ IsVowel(word[Len(word)])
    THEN RStrip(SubSeq(word, 1, Len(word) - 1))
    ELSE word

NotFound == <<"<None>">>

\* the tags, in the fixed order, under which the word is in the vocabulary
TagsFound(m, word) == SelectSeq(Tags, LAMBDA t : InVocab(m, Append(word, t)))

\* the first tagged form of the word in the vocabulary (pretrained space only)
TaggedKey(m, word) ==
    IF m.is_pretrained /\ Len(TagsFound(m, word)) > 0
    THEN Append(word, Head(TagsFound(m, word)))
    ELSE NotFound

\* one variant of the stemming fallback: the variant itself, then its tagged forms
VariantKey(m, variant) ==
    IF Len(variant) = 0 THEN NotFound
    ELSE IF InVocab(m, variant) THEN variant
    ELSE TaggedKey(m, variant)

\* the first element of keys that is a key
FirstFound(keys) ==
    IF Len(SelectSeq(keys, LAMBDA k : k /= NotFound)) > 0
    THEN Head(SelectSeq(keys, LAMBDA k : k /= NotFound))
    ELSE NotFound

\* [word, word.rstrip(vowels), word.rstrip(vowels).rstrip(vowels)]
Variants(word) == <<word, RStrip(word), RStrip(RStrip(word))>>

find_word_in_vocab(m, word) ==
    IF ~m.has_model THEN NotFound
    ELSE IF InVocab(m, word) THEN word
    ELSE FirstFound(<<TaggedKey(m, word)>>
                    \o [i \in 1..3 |-> VariantKey(m, Variants(word)[i])])

\* _get_word_vectors of the key found, when one was found
FoundVector(m, found) == IF found /= NotFound THEN <<VecOf(m, found)>> ELSE <<>>

\* the vectors of the tokens that resolve, in order
RECURSIVE TokenVectors(_, _, _)
TokenVectors(m, tokens, i) ==
    IF i > Len(tokens) THEN <<>>
    ELSE FoundVector(m, find_word_in_vocab(m, tokens[i])) \o TokenVectors(m, tokens, i + 1)

RECURSIVE SumVec(_, _)
SumVec(vs, i) ==
    IF i = Len(vs) THEN vs[i]
    ELSE [k \in 1..Len(vs[i]) |-> vs[i][k] + SumVec(vs, i + 1)[k]]

NoVector == [some |-> FALSE, sum |-> <<>>, n |-> 1]

\* np.mean(vectors, axis=0), kept exact as sum / n
Mean(vectors) ==
    IF Len(vectors) > 0
    THEN [some |-> TRUE, sum |-> SumVec(vectors, 1), n |-> Len(vectors)]
    ELSE NoVector

text_to_vector(m, text) ==
    IF ~m.is_trained \/ ~m.has_model \/ Len(text) = 0 THEN NoVector
    ELSE Mean(TokenVectors(m, tokenize_text(text), 1))

RECURSIVE Dot(_, _, _)
Dot(a, b, i) == IF i > Len(a) THEN 0 ELSE a[i] * b[i] + Dot(a, b, i + 1)

\* the dot product over the components both vectors have
RECURSIVE DotCommon(_, _, _)
DotCommon(a, b, i) ==
    IF i > Len(a) \/ i > Len(b) THEN 0 ELSE a[i] * b[i] + DotCommon(a, b, i + 1)

\* norm1 * norm2 in doubles, for squared norms n1 and n2 up to 12 whose
\* product is a square: sqrt(2.0) * sqrt(2.0) is 2.0000000000000004 and
\* sqrt(3.0) * sqrt(3.0) is 2.9999999999999996; the product is exact when
\* both norms are integers
RoundedUp == {<<2, 2>>, <<2, 8>>, <<8, 2>>, <<5, 5>>, <<7, 7>>, <<8, 8>>, <<10, 10>>}
RoundedDown == {<<3, 3>>, <<3, 12>>, <<12, 3>>, <<6, 6>>, <<12, 12>>}
NormProductError(n1, n2) ==
    IF <<n1, n2>> \in RoundedUp THEN 1
    ELSE IF <<n1, n2>> \in RoundedDown THEN -1
    ELSE 0

Sign(x) == IF x > 0 THEN 1 ELSE IF x < 0 THEN -1 ELSE 0

\* dot / (norm1 * norm2): a denominator that is too large brings the
\* quotient nearer to zero
Quotient(dot, n1, n2) ==
    [d |-> dot, q |-> n1 * n2, e |-> (0 - Sign(dot)) * NormProductError(n1, n2)]

\* the cosine without the shape test, taken over the common components
CosineUnchecked(vec1, vec2) ==
    IF Dot(vec1, vec1, 1) = 0 \/ Dot(vec2, vec2, 1) = 0 THEN Zero
    ELSE Quotient(DotCommon(vec1, vec2, 1), Dot(vec1, vec1, 1), Dot(vec2, vec2, 1))

\* dot / (norm1 * norm2); 0.0 for vectors of different shapes or of norm zero.
\* In predict_category vec1 is a mean sum / n and is held here as the sum:
\* n > 0 cancels in the quotient, and the reference vectors of the classifier
\* states have norm 1, so that the doubles round the quotient only where it
\* is irrational.  Called with two vectors, the rounding is that of Quotient.
cosine_similarity(vec1, vec2) ==
    IF Len(vec1) /= Len(vec2) THEN Zero
    ELSE IF Dot(vec1, vec1, 1) = 0 \/ Dot(vec2, vec2, 1) = 0 THEN Zero
    ELSE Quotient(Dot(vec1, vec2, 1), Dot(vec1, vec1, 1), Dot(vec2, vec2, 1))

\* the loop of predict_category from reference vector i on
RECURSIVE BestFrom(_, _, _)
BestFrom(text_vector, i, best) ==
    IF i > Len(ml.category_vectors) THEN best
    ELSE LET similarity == cosine_similarity(text_vector, ml.category_vectors[i].vector)
         IN  IF ConfGT(similarity, best.confidence)
             THEN BestFrom(text_vector, i + 1,
                           Result(ml.category_vectors[i].category, similarity))
             ELSE BestFrom(text_vector, i + 1, best)

\* the loop of predict_category entered although text_to_vector returned None
NearestOfAny(text_vector) ==
    BestFrom(text_vector.sum, 1, Result(NoneCat, MinusOne))

Nearest(text_vector) ==
    IF ~text_vector.some THEN Result(NoneCat, Zero)
    ELSE BestFrom(text_vector.sum, 1, Result(NoneCat, MinusOne))

predict_category(text) ==
    IF ~ml.is_trained \/ Len(ml.category_vectors) = 0 THEN Result(NoneCat, Zero)
    ELSE Nearest(text_to_vector(ml, text))

\* _cosine_similarity's side effect: the warning is logged when the shapes
\* differ and this instance has not warned yet, and the instance remembers it
LogShapeWarning(mismatch) ==
    /\ shape_warnings' = shape_warnings
                            + (IF mismatch /\ ~_shape_warning_emitted THEN 1 ELSE 0)
    /\ _shape_warning_emitted' = (_shape_warning_emitted \/ mismatch)

\* some comparison of predict_category's loop is between different shapes
ShapeMismatch(text_vector) ==
    /\ text_vector.some
    /\ \E i \in 1..Len(ml.category_vectors) :
          Len(ml.category_vectors[i].vector) /= Len(text_vector.sum)

PredictWarns(text) ==
    /\ ml.is_trained
    /\ Len(ml.category_vectors) > 0
    /\ ShapeMismatch(text_to_vector(ml, text))

(***************************************************************************)
(* The life cycle of an MLClassifier: load_model, load_pretrained_model,   *)
(* train_word2vec, save_model.  Each takes the classifier m and the files  *)
(* d of models_dir and returns the classifier (or the files) it leaves.    *)
(***************************************************************************)
Vectors(exists, refs) == [exists |-> exists, refs |-> refs]
Dir(pretrained, local, vectors) ==
    [pretrained |-> pretrained, local |-> local, vectors |-> vectors]

DirEmpty == Dir(NoModel, NoModel, Vectors(FALSE, <<>>))
DirLocal == Dir(NoModel, Model("w2v", LocalVocab, 2), Vectors(TRUE, SavedVectors))
DirLocalNoVectors == Dir(NoModel, Model("w2v", LocalVocab, 2), Vectors(FALSE, <<>>))
DirPretrained ==
    Dir(Model("kv", PretrainedVocab, 3), NoModel, Vectors(TRUE, PretrainedVectors))
\* both spaces, and reference vectors of both lengths in category_vectors.json
DirBoth ==
    Dir(Model("kv", PretrainedVocab, 3), Model("w2v", LocalVocab, 2),
        Vectors(TRUE, <<Ref("work", <<1, 0>>), Ref("travel", <<0, 1, 0>>)>>))
DirOpposed == Dir(NoModel, Model("w2v", LocalVocab, 2), Vectors(TRUE, OpposedVectors))
Dirs == {DirEmpty, DirLocal, DirLocalNoVectors, DirPretrained, DirBoth}

\* the models_dir each classifier state of MLStates was loaded from
DirOf(m) ==
    IF m = MLLocal THEN DirLocal
    ELSE IF m = MLPretrained THEN DirPretrained
    ELSE IF m = MLNoVectors THEN DirLocalNoVectors
    ELSE IF m = MLOpposed THEN DirOpposed
    ELSE DirEmpty

Outcome(m, ok) == [ml |-> m, ok |-> ok]

\* self.model = <loaded or trained object>
WithModel(m, model) ==
    [m EXCEPT !.has_model = TRUE, !.kind = model.kind,
              !.vector_size = model.vector_size, !.vocab = model.vocab]

expected_vector_size(m) == IF ~m.has_model THEN 0 ELSE m.vector_size

validate_category_vectors(m) ==
    IF expected_vector_size(m) = 0 \/ Len(m.category_vectors) = 0 THEN m
    ELSE [m EXCEPT !.category_vectors =
             SelectSeq(@, LAMBDA r : Len(r.vector) = expected_vector_size(m))]

\* category_vectors = the content of category_vectors.json, then validation
WithSavedVectors(m, refs) == validate_category_vectors([m EXCEPT !.category_vectors = refs])

load_pretrained_model(m, d) ==
    IF d.pretrained.kind = "none" THEN Outcome(m, FALSE)
    ELSE Outcome([WithModel(m, d.pretrained) EXCEPT
                      !.is_pretrained = (d.pretrained.kind = "kv"),
                      !.is_trained = TRUE], TRUE)

\* the second half of load_model: the classifier's own word2vec.model
LoadLocal(m, d) ==
    IF d.local.kind = "none" THEN Outcome(m, FALSE)
    ELSE Outcome([(IF d.vectors.exists
                   THEN WithSavedVectors([WithModel(m, d.local) EXCEPT !.is_pretrained = FALSE],
                                         d.vectors.refs)
                   ELSE [WithModel(m, d.local) EXCEPT !.is_pretrained = FALSE,
                                                      !.category_vectors = <<>>])
                  EXCEPT !.is_trained = TRUE], TRUE)

\* the first half of load_model, given what load_pretrained_model returned
LoadPretrained(m, d, loaded) ==
    IF m.use_pretrained /\ d.pretrained.kind /= "none" /\ loaded.ok
    THEN Outcome(IF d.vectors.exists THEN WithSavedVectors(loaded.ml, d.vectors.refs)
                 ELSE loaded.ml, TRUE)
    ELSE LoadLocal(m, d)

load_model(m, d) == LoadPretrained(m, d, load_pretrained_model(m, d))

\* training data: a sequence of (category, texts), in dict order
Data(c, texts) == [category |-> c, texts |-> texts]

\* all_sentences: the token list of every text
RECURSIVE SentencesOf(_, _)
SentencesOf(texts, i) ==
    IF i > Len(texts) THEN <<>>
    ELSE <<tokenize_text(texts[i])>> \o SentencesOf(texts, i + 1)
RECURSIVE AllSentences(_, _)
AllSentences(training_data, i) ==
    IF i > Len(training_data) THEN <<>>
    ELSE SentencesOf(training_data[i].texts, 1) \o AllSentences(training_data, i + 1)

\* the vocabulary of the trained space (min_count = 1: every token)
Vocabulary(sentences) ==
    UNION {{sentences[i][j] : j \in 1..Len(sentences[i])} : i \in 1..Len(sentences)}

\* "if text_vector is not None: category_vectors.append(text_vector)"
IfSome(text_vector) == IF text_vector.some THEN <<text_vector>> ELSE <<>>

\* the text vectors of a category that are not None
RECURSIVE TextVectors(_, _, _)
TextVectors(m, texts, i) ==
    IF i > Len(texts) THEN <<>>
    ELSE IfSome(text_to_vector(m, texts[i])) \o TextVectors(m, texts, i + 1)

RECURSIVE ProductN(_, _)
ProductN(tvs, i) == IF i > Len(tvs) THEN 1 ELSE tvs[i].n * ProductN(tvs, i + 1)

\* np.mean of the text vectors sum_i / n_i, multiplied by len * product of the
\* n_i so that it stays integral; cosines and zero norms are those of the mean
MeanOfMeans(tvs) ==
    SumVec([i \in 1..Len(tvs) |->
               [k \in 1..Len(tvs[i].sum) |-> tvs[i].sum[k] * (ProductN(tvs, 1) \div tvs[i].n)]], 1)

\* self.category_vectors[category] = vector
DictSet(refs, category, vector) ==
    IF \E i \in 1..Len(refs) : refs[i].category = category
    THEN [i \in 1..Len(refs) |->
             IF refs[i].category = category THEN Ref(category, vector) ELSE refs[i]]
    ELSE Append(refs, Ref(category, vector))

\* one category of _create_category_vectors, given its text vectors
WithCategoryVector(m, category, tvs) ==
    IF Len(tvs) > 0
    THEN [m EXCEPT !.category_vectors = DictSet(@, category, MeanOfMeans(tvs))]
    ELSE m

RECURSIVE create_category_vectors(_, _, _)
create_category_vectors(m, training_data, i) ==
    IF i > Len(training_data) THEN m
    ELSE create_category_vectors(
             WithCategoryVector(m, training_data[i].category,
                                TextVectors(m, training_data[i].texts, 1)),
             training_data, i + 1)

\* train_word2vec, given all_sentences and the vectors emb the training gives
\* the tokens; Word2Vec raises on an empty vocabulary
Trained(m, training_data, sentences, emb) ==
    IF Len(sentences) = 0 THEN Outcome(m, FALSE)
    ELSE IF Vocabulary(sentences) = {} THEN Outcome(m, FALSE)
    ELSE Outcome(create_category_vectors(
                     [WithModel(m, Model("w2v",
                                         {Entry(t, emb[t]) : t \in Vocabulary(sentences)}, 2))
                      EXCEPT !.is_trained = TRUE],
                     training_data, 1), TRUE)

train_word2vec(m, training_data, emb) ==
    Trained(m, training_data, AllSentences(training_data, 1), emb)

\* save_model: word2vec.model unless the space is a pretrained one, and
\* category_vectors.json
save_model(m, d) ==
    IF ~m.has_model THEN [dir |-> d, ok |-> FALSE]
    ELSE [dir |-> [d EXCEPT !.local = IF m.is_pretrained THEN @
                                      ELSE Model(m.kind, m.vocab, m.vector_size),
                            !.vectors = Vectors(TRUE, m.category_vectors)],
          ok |-> TRUE]

(***************************************************************************)
(* Classifier: FileSorter.categorize_with_ml and categorize_file.          *)
(***************************************************************************)
\* "category and confidence >= ml_confidence_threshold"
Confident(predicted) ==
    /\ predicted.category /= NoneCat
    /\ ConfGEtenths(predicted.confidence, ml_confidence_threshold)

\* categorize_with_ml without the confidence threshold
MLOrRulesNoThreshold(predicted, rules) ==
    IF ~use_ml \/ ~ml.is_trained THEN rules
    ELSE IF predicted.category /= NoneCat THEN predicted
    ELSE rules

\* categorize_with_ml, given what predict_category and categorize_with_rules return
MLOrRules(predicted, rules) ==
    IF ~use_ml \/ ~ml.is_trained THEN rules
    ELSE IF Confident(predicted) THEN predicted
    ELSE rules

categorize_with_ml(text) == MLOrRules(predict_category(text), categorize_with_rules(text))

\* categorize_file, given what categorize_with_ml and categorize_with_rules return
FileCategory(by_ml, by_rules) ==
    IF use_ml /\ ml.is_trained THEN by_ml.category ELSE by_rules.category

categorize_file(text) == FileCategory(categorize_with_ml(text), categorize_with_rules(text))

(***************************************************************************)
(* Files and paths.  A file name is stem + suffix; the stem is a base      *)
(* followed by "_<k>" parts, so a.txt is [base "a", counters <<>>] and     *)
(* a_1.txt is [base "a", counters <<1>>].                                  *)
(***************************************************************************)
FileName(b, cs, sfx) == [base |-> b, counters |-> cs, suffix |-> sfx]
PathOf(dir, name) == [dir |-> dir, name |-> name]

\* f"{stem}_{counter}{suffix}"
Renamed(name, counter) ==
    FileName(name.base, Append(name.counters, counter), name.suffix)

Exists(path) == path \in DOMAIN target

\* the file system after path is written with data
Written(path, data) ==
    [p \in DOMAIN target \cup {path} |-> IF p = path THEN data ELSE target[p]]

(***************************************************************************)
(* ConflictResolver: FileSorter._resolve_conflict.                         *)
(***************************************************************************)
Resolution(path, process, err) ==
    [path |-> path, should_process |-> process, raised |-> err]

\* the rename loop without its existence test
RenameUnchecked(target_path, counter) ==
    Resolution(PathOf(target_path.dir, Renamed(target_path.name, counter)), TRUE, FALSE)

\* the while loop of the rename branch, entered with this counter
RECURSIVE RenameFrom(_, _)
RenameFrom(target_path, counter) ==
    LET new_path == PathOf(target_path.dir, Renamed(target_path.name, counter))
    IN  IF ~Exists(new_path) THEN Resolution(new_path, TRUE, FALSE)
        ELSE RenameFrom(target_path, counter + 1)

\* the resolver with the skip branch proceeding instead of skipping
ResolveSkipProceeds(target_path) ==
    IF ~Exists(target_path) THEN Resolution(target_path, TRUE, FALSE)
    ELSE IF conflict_resolution = "skip" THEN Resolution(target_path, TRUE, FALSE)
    ELSE IF conflict_resolution = "overwrite" THEN Resolution(target_path, TRUE, FALSE)
    ELSE IF conflict_resolution = "rename" THEN RenameFrom(target_path, 1)
    ELSE Resolution(target_path, FALSE, TRUE)

\* the resolver with the overwrite branch missing, so that overwrite renames
ResolveOverwriteRenames(target_path) ==
    IF ~Exists(target_path) THEN Resolution(target_path, TRUE, FALSE)
    ELSE IF conflict_resolution = "skip" THEN Resolution(target_path, FALSE, FALSE)
    ELSE IF conflict_resolution \in {"rename", "overwrite"} THEN RenameFrom(target_path, 1)
    ELSE Resolution(target_path, FALSE, TRUE)

\* The final branch calls _resolve_conflict again with the same path and the
\* same configuration, so every level takes the same branch: the call never
\* returns and ends in RecursionError.
resolve_conflict(target_path) ==
    IF ~Exists(target_path) THEN Resolution(target_path, TRUE, FALSE)
    ELSE IF conflict_resolution = "skip" THEN Resolution(target_path, FALSE, FALSE)
    ELSE IF conflict_resolution = "overwrite" THEN Resolution(target_path, TRUE, FALSE)
    ELSE IF conflict_resolution = "rename" THEN RenameFrom(target_path, 1)
    ELSE Resolution(target_path, FALSE, TRUE)

(***************************************************************************)
(* TextExtractor, as far as the orchestrator depends on it: a .txt file    *)
(* yields its decoded text, a .pdf yields its stripped text, and a file    *)
(* that cannot be read or parsed yields None.                              *)
(***************************************************************************)
None == [some |-> FALSE, text |-> <<>>]
Some(t) == [some |-> TRUE, text |-> t]
\* an exception on its way to the except clause of extract_text_from_file
Raises == [some |-> FALSE, text |-> <<>>, raised |-> TRUE]

RECURSIVE LStrip(_)
LStrip(t) == IF Len(t) > 0 /\ IsSpace(t[1]) THEN LStrip(Tail(t)) ELSE t
RECURSIVE RStripSpace(_)
RStripSpace(t) ==
    IF Len(t) > 0 /\ IsSpace(t[Len(t)]) THEN RStripSpace(SubSeq(t, 1, Len(t) - 1)) ELSE t
Strip(t) == LStrip(RStripSpace(t))

\* " ".join(fragments)
RECURSIVE Join(_, _)
Join(fragments, i) ==
    IF i > Len(fragments) THEN <<>>
    ELSE IF i = Len(fragments) THEN fragments[i]
    ELSE fragments[i] \o <<" ">> \o Join(fragments, i + 1)

\* The libraries the code imports with a fallback; chardet, PyPDF2 and
\* python-docx are imported without one and are taken as installed.
OptionalLibraries == {"pdfplumber", "defusedxml"}

SourceFile(name, ok, text) == [name |-> name, ok |-> ok, text |-> text]
InSource(file) == \E i \in 1..Len(source) : source[i].name = file.name
\* open() succeeds: the file is there and can be read
Readable(file) == InSource(file) /\ file.ok

_read_text_with_encoding(file) ==
    IF ~Readable(file) THEN None
    ELSE IF Len(file.text) = 0 THEN Some(<<>>)
    ELSE Some(file.text)

\* JSON values: objects hold (key, value) items in document order
JNull == [t |-> "null"]
JStr(str) == [t |-> "str", s |-> str]
JNum(n) == [t |-> "num", n |-> n]
JBool(b) == [t |-> "bool", b |-> b]
JArr(items) == [t |-> "arr", items |-> items]
JObj(items) == [t |-> "obj", items |-> items]
Item(k, v) == [key |-> k, value |-> v]

\* max_depth of _collect_json_text
JsonMaxDepth == 32

\* str() of a non-negative integer
Digit(n) == <<"0", "1", "2", "3", "4", "5", "6", "7", "8", "9">>[n + 1]
RECURSIVE Decimal(_)
Decimal(n) == IF n < 10 THEN <<Digit(n)>> ELSE Append(Decimal(n \div 10), Digit(n % 10))

\* str(data) of a scalar leaf
StrOf(data) ==
    IF data.t = "str" THEN data.s
    ELSE IF data.t = "num"
         THEN (IF data.n < 0 THEN <<"-">> \o Decimal(-data.n) ELSE Decimal(data.n))
    ELSE IF data.b THEN <<"T", "r", "u", "e">>
    ELSE <<"F", "a", "l", "s", "e">>

\* what _collect_json_text appends to the collector for data at this depth,
\* with the given depth cap
RECURSIVE CollectCapped(_, _, _), CollectItems(_, _, _, _)
CollectCapped(data, depth, max_depth) ==
    IF depth > max_depth THEN <<>>
    ELSE IF data.t \in {"obj", "arr"} THEN CollectItems(data, 1, depth, max_depth)
    ELSE IF data.t = "null" THEN <<>>
    ELSE <<StrOf(data)>>
CollectItems(data, i, depth, max_depth) ==
    IF i > Len(data.items) THEN <<>>
    ELSE (IF data.t = "obj"
          THEN <<data.items[i].key>> \o CollectCapped(data.items[i].value, depth + 1, max_depth)
          ELSE CollectCapped(data.items[i], depth + 1, max_depth))
         \o CollectItems(data, i + 1, depth, max_depth)

\* the traversal without a depth cap
CollectUncapped(data, depth) == CollectCapped(data, depth, depth + JsonMaxDepth + JsonMaxDepth)

_collect_json_text(data, depth) == CollectCapped(data, depth, JsonMaxDepth)

\* the join of the collected fragments without the final strip
JoinedUnstripped(collected) == Some(Join(collected, 1))

\* " ".join(collected).strip()
Joined(collected) == Some(Strip(Join(collected, 1)))

\* a .json file holds white space only ("blank"), text json.loads rejects
\* with JSONDecodeError ("invalid"), JSON on which json.loads raises another
\* exception, or a document with the parsed value doc.value.  The other
\* exceptions are RecursionError for brackets nested beyond the interpreter's
\* recursion limit ("too_deep") and ValueError for an integer literal longer
\* than the interpreter's digit limit ("huge_int"); "except
\* json.JSONDecodeError" lets both leave the method.
_extract_text_from_json(file) ==
    IF ~Readable(file) THEN None
    ELSE IF file.doc.kind = "blank" THEN Some(<<>>)
    ELSE IF file.doc.kind = "invalid" THEN None
    ELSE IF file.doc.kind \in {"too_deep", "huge_int"} THEN Raises
    ELSE Joined(_collect_json_text(file.doc.value, 0))

\* XML elements: text, attribute values, tail, children
Elem(text, attrib, tail, children) ==
    [text |-> text, attrib |-> attrib, tail |-> tail, children |-> children]

\* "from defusedxml import ElementTree", else the standard library's
XmlParser == IF "defusedxml" \in installed THEN "defusedxml" ELSE "xml.etree"

\* the fragments of one element: stripped text, attribute values, stripped tail
StrippedIfAny(t) == IF StripNonEmpty(t) THEN <<Strip(t)>> ELSE <<>>
ElemFragments(elem) ==
    StrippedIfAny(elem.text)
    \o SelectSeq(elem.attrib, LAMBDA v : Len(v) > 0)
    \o StrippedIfAny(elem.tail)

\* root.iter(): the element, then its descendants in document order
RECURSIVE IterFragments(_), ChildrenFragments(_, _)
IterFragments(elem) == ElemFragments(elem) \o ChildrenFragments(elem.children, 1)
ChildrenFragments(children, i) ==
    IF i > Len(children) THEN <<>>
    ELSE IterFragments(children[i]) \o ChildrenFragments(children, i + 1)

\* a .xml file is "malformed", declares and uses an external "entity", or
\* holds a tree with root doc.root.  defusedxml refuses the entity with an
\* exception that is not a ParseError; xml.etree does not expand external
\* entities and raises ParseError where one is used.
_extract_text_from_xml(file) ==
    IF ~Readable(file) \/ file.doc.kind = "malformed" THEN None
    ELSE IF file.doc.kind = "entity"
         THEN (IF XmlParser = "defusedxml" THEN Raises ELSE None)
    ELSE Some(Strip(Join(IterFragments(file.doc.root), 1)))

\* str.lower() of a suffix
SuffixLower(suffix) == IF suffix = ".TXT" THEN ".txt" ELSE suffix

\* the pdf branch: pdfplumber, else PyPDF2; file.text is the text of the pages
ExtractPdf(file) ==
    IF ~Readable(file) THEN Raises
    ELSE IF "pdfplumber" \in installed THEN Some(Strip(file.text))
    ELSE Some(file.text)

\* the body of the try block, by lower-cased suffix
ExtractBySuffix(file, file_ext) ==
    IF file_ext = ".txt" THEN _read_text_with_encoding(file)
    ELSE IF file_ext = ".pdf" THEN ExtractPdf(file)
    ELSE IF file_ext \in {".docx", ".doc"}
         THEN (IF Readable(file) THEN Some(file.text) ELSE Raises)
    ELSE IF file_ext = ".json" THEN _extract_text_from_json(file)
    ELSE IF file_ext = ".xml" THEN _extract_text_from_xml(file)
    ELSE None

\* "except Exception: return None"
Caught(outcome) == IF outcome = Raises THEN None ELSE outcome

\* extract_text_from_file with the exception leaving the method
ExtractUncaught(file) == ExtractBySuffix(file, SuffixLower(file.name.suffix))

extract_text_from_file(file) ==
    Caught(ExtractBySuffix(file, SuffixLower(file.name.suffix)))

\* for ext in supported_extensions: for file_path in source_dir.glob("*" + ext)
SupportedExtensions == <<".txt", ".pdf", ".docx", ".doc", ".json", ".xml">>
RECURSIVE ScanFrom(_)
ScanFrom(e) ==
    IF e > Len(SupportedExtensions) THEN <<>>
    ELSE SelectSeq(source, LAMBDA f : f.name.suffix = SupportedExtensions[e])
         \o ScanFrom(e + 1)
\* "if not self.source_dir.exists(): return files": of the directories a
\* FileSorter is given, RawDir is the one that exists
RawDir == "data/raw"
scan_directory == IF source_dir /= RawDir THEN <<>> ELSE ScanFrom(1)

(***************************************************************************)
(* SortOrchestrator: FileSorter.sort_file.                                 *)
(***************************************************************************)
\* the category sort_file decides, given what extract_text_from_file returned
CategoryFor(text) ==
    IF ~text.some \/ ~StripNonEmpty(text.text) THEN "other"
    ELSE categorize_file(text.text)

\* The files of the target tree are writable by the caller; those in
\* foreign belong to another user.  A folder in readonly admits no new entry
\* and no rename, and a file in it can still be rewritten.

\* the destination cannot be opened for writing: the source file is gone,
\* the folder is missing, or the file is new and the folder not writable
CannotWrite(path, file) ==
    \/ ~InSource(file)
    \/ path.dir \notin folders
    \/ path.dir \in readonly /\ ~Exists(path)

\* the content goes through shutil.copy2: copy_files, or shutil.move whose
\* os.rename is refused by the folder
Copies(path) == copy_files \/ path.dir \in readonly

\* copy2 is copyfile, then copystat: copystat raises on a file of another user
StatFails(path) == Exists(path) /\ path \in foreign /\ Copies(path)

\* shutil.copy2 / shutil.move raise
PlacementFails(path, file) == CannotWrite(path, file) \/ StatFails(path)

\* the rest of sort_file, given what _resolve_conflict returned:
\* result is "sorted", "skipped", "failed" (None), or "raised"; written says
\* whether the destination received the content of the file
Placement(file, category, res) ==
    [category |-> category, dest |-> res.path,
     result |-> IF res.raised THEN "raised"
                ELSE IF ~res.should_process THEN "skipped"
                ELSE IF PlacementFails(res.path, file) THEN "failed"
                ELSE "sorted",
     written |-> /\ ~res.raised
                 /\ res.should_process
                 /\ ~CannotWrite(res.path, file)]

SortFileIn(file, category) ==
    Placement(file, category, resolve_conflict(PathOf(category, file.name)))

sort_file(file) == SortFileIn(file, CategoryFor(extract_text_from_file(file)))

\* the target tree and the source directory after sort_file placed the file
TargetAfter(file, placed) ==
    IF placed.written THEN Written(placed.dest, file.text) ELSE target

\* os.rename puts the caller's own file in the place of the existing one
ForeignAfter(file, placed) ==
    IF placed.result = "sorted" /\ ~Copies(placed.dest) THEN foreign \ {placed.dest}
    ELSE foreign

SourceAfter(file, placed) ==
    IF placed.result = "sorted" /\ ~copy_files
    THEN SelectSeq(source, LAMBDA f : f.name /= file.name)
    ELSE source

(***************************************************************************)
(* SortOrchestrator: FileSorter.sort_all, one loop iteration per step.     *)
(***************************************************************************)
AllCategories == {"work", "finance", "other", "travel"}
NoCounts == [c \in AllCategories |-> 0]

NoStats == [returned |-> FALSE, total |-> 0, sorted |-> 0, failed |-> 0, skipped |-> 0,
            by_category |-> NoCounts, method_used |-> "none", has_counts |-> FALSE,
            ml_count |-> 0, rules_count |-> 0, conflict_resolution |-> ""]

\* the classifier whose answer categorize_file returns for this text
DecidedBy(text) ==
    IF use_ml /\ ml.is_trained /\ Confident(predict_category(text)) THEN "ml" ELSE "rules"

\* sort_all's own test of the extracted text: "if text:"
Truthy(text) == text.some /\ Len(text.text) > 0

\* the method sort_all counts the file under
CountedAs(text) ==
    IF Truthy(text) /\ use_ml /\ ml.is_trained THEN "ml" ELSE "rules"

\* the category sort_all records for the statistics
StatsCategory(text) ==
    IF Truthy(text) THEN categorize_file(text.text) ELSE "other"

\* sort_all up to the loop: scan, and the early return for an empty scan
SortAllStart ==
    /\ pc = "idle"
    /\ files' = scan_directory
    /\ idx' = 1
    /\ sorted_count' = 0
    /\ failed_count' = 0
    /\ skipped_count' = 0
    /\ by_category' = NoCounts
    /\ ml_used' = 0
    /\ rules_used' = 0
    /\ history' = <<>>
    /\ IF Len(scan_directory) = 0
       THEN /\ pc' = "done"
            /\ stats' = [NoStats EXCEPT !.returned = TRUE,
                                        !.conflict_resolution = conflict_resolution]
       ELSE /\ pc' = "running"
            /\ stats' = NoStats
    /\ UNCHANGED <<configVars, logVars, guiVars, dirVars, frame, mlVars, fsVars, run, probe>>

\* a loop that counts a result under sorted or skipped only
TalliedNoFailed(result) ==
    IF result = "sorted" THEN "sorted"
    ELSE IF result = "skipped" THEN "skipped"
    ELSE "none"

\* the counter a result of sort_file goes to: sorted, skipped, else failed
Tallied(result) ==
    IF result = "sorted" THEN "sorted"
    ELSE IF result = "skipped" THEN "skipped"
    ELSE "failed"

\* "if result == 'sorted' ... else failed_count += 1" and what sort_file did
\* to the directories, given the extracted text, the category recorded for
\* the statistics, what sort_file returned, the method the file was counted
\* under and the classifier that decided the category
LoopTally(file, text, category, placed, counted, decided) ==
    /\ history' = Append(history,
           [file |-> file, text |-> text, category |-> category,
            placed_in |-> placed.category,
            classified_by_sort_all |-> Truthy(text),
            classified_by_sort_file |-> text.some /\ StripNonEmpty(text.text),
            decided_by |-> decided,
            counted_as |-> counted,
            result |-> placed.result, dest |-> placed.dest])
    /\ IF placed.result = "raised"
       THEN /\ pc' = "crashed"
             /\ UNCHANGED <<idx, sorted_count, failed_count, skipped_count,
                           by_category, source, target, foreign>>
       ELSE /\ pc' = pc
            /\ idx' = idx + 1
            /\ sorted_count' = sorted_count
                                  + (IF Tallied(placed.result) = "sorted" THEN 1 ELSE 0)
            /\ skipped_count' = skipped_count
                                   + (IF Tallied(placed.result) = "skipped" THEN 1 ELSE 0)
            /\ failed_count' = failed_count
                                  + (IF Tallied(placed.result) = "failed" THEN 1 ELSE 0)
            /\ by_category' = IF Tallied(placed.result) = "sorted"
                              THEN [by_category EXCEPT ![category] = @ + 1]
                              ELSE by_category
            /\ target' = TargetAfter(file, placed)
            /\ source' = SourceAfter(file, placed)
            /\ foreign' = ForeignAfter(file, placed)

\* "ml_used += 1" or "rules_used += 1"
CountUnder(counted) ==
    /\ ml_used' = ml_used + (IF counted = "ml" THEN 1 ELSE 0)
    /\ rules_used' = rules_used + (IF counted = "rules" THEN 1 ELSE 0)

\* the classifier that decides the category of the statistics
Decided(text) == IF Truthy(text) THEN DecidedBy(text.text) ELSE "none"

\* the body of the loop in a thread that nothing interrupts, given the
\* extracted text, the category recorded for the statistics and what
\* sort_file returned
LoopBody(file, text, category, placed) ==
    /\ CountUnder(CountedAs(text))
    /\ LoopTally(file, text, category, placed, CountedAs(text), Decided(text))

\* categorize_file reaches predict_category when use_ml is on
ClassifyWarns(text) == use_ml /\ Truthy(text) /\ PredictWarns(text.text)

LoopStep(file, text) ==
    /\ LoopBody(file, text, StatsCategory(text), sort_file(file))
    /\ LogShapeWarning(ClassifyWarns(text))

\* one iteration of "for file_path in file_iterator"
ProcessFile ==
    /\ pc = "running"
    /\ idx <= Len(files)
    /\ LoopStep(files[idx], extract_text_from_file(files[idx]))
    /\ UNCHANGED <<configVars, guiVars, dirVars, frame, mlVars, folders, readonly, installed, files,
                   stats, run, probe>>

\* the statistics sort_all returns after the loop
SortAllFinish ==
    /\ pc = "running"
    /\ idx > Len(files)
    /\ pc' = "done"
    /\ stats' = [returned |-> TRUE, total |-> Len(files), sorted |-> sorted_count,
                 failed |-> failed_count, skipped |-> skipped_count,
                 by_category |-> by_category,
                 method_used |-> IF ml_used > rules_used THEN "ML"
                                 ELSE IF rules_used > 0 THEN "rules" ELSE "none",
                 has_counts |-> TRUE,
                 ml_count |-> ml_used, rules_count |-> rules_used,
                 conflict_resolution |-> conflict_resolution]
    /\ UNCHANGED <<configVars, logVars, guiVars, dirVars, frame, mlVars, fsVars, files, idx,
                   sorted_count, failed_count, skipped_count, by_category, ml_used,
                   rules_used, run, history, probe>>

\* a further sort_all over the same directories, with a new FileSorter
SortAgain ==
    /\ pc = "done"
    /\ run < MaxRuns
    /\ pc' = "idle"
    /\ run' = run + 1
    /\ _shape_warning_emitted' = FALSE
    /\ UNCHANGED <<configVars, shape_warnings, guiVars, dirVars, frame, mlVars, fsVars, files, idx,
                   sorted_count, failed_count, skipped_count, by_category, ml_used,
                   rules_used, stats, history, probe>>

(***************************************************************************)
(* Initial states: the configuration, the model on disk, the source batch  *)
(* and the target tree a FileSorter is constructed over.                   *)
(***************************************************************************)
\* the names a batch of n files has: a, a_1, b, c, c_1, ...
NameAt(i, sfx) ==
    IF i = 1 THEN FileName("a", <<>>, sfx)
    ELSE IF i = 2 THEN FileName("a", <<1>>, sfx)
    ELSE IF i = 3 THEN FileName("b", <<>>, sfx)
    ELSE FileName("c", [k \in 1..(i - 4) |-> 1], sfx)

\* contents: a document that does not parse, white space only, a text with
\* a keyword of work, a text below every threshold
Samples == {[suffix |-> ".pdf", ok |-> FALSE, text |-> <<>>],
            [suffix |-> ".txt", ok |-> TRUE, text |-> <<" ">>],
            [suffix |-> ".txt", ok |-> TRUE, text |-> <<"w">>],
            [suffix |-> ".txt", ok |-> TRUE, text |-> <<"f">>]}

Batches == UNION {[1..n -> Samples] : n \in 0..MaxFiles}
BatchFiles(b) ==
    [i \in 1..Len(b) |-> SourceFile(NameAt(i, b[i].suffix), b[i].ok, b[i].text)]

\* The order in which glob yields the files of a directory is up to the file
\* system: the files of a batch stand in source in any order.
Orders(n) == {o \in [1..n -> 1..n] : \A i \in 1..n : \A j \in 1..n : o[i] = o[j] => i = j}
BatchFilesIn(b, o) ==
    [i \in 1..Len(b) |-> SourceFile(NameAt(o[i], b[i].suffix), b[i].ok, b[i].text)]

OldData == <<"o">>
TxtA == FileName("a", <<>>, ".txt")
TxtA1 == FileName("a", <<1>>, ".txt")
\* target trees found at construction, and the folders that are not writable
Environments ==
    {[present |-> {}, readonly |-> {}, foreign |-> {}],
     [present |-> {PathOf("work", TxtA), PathOf("other", TxtA)}, readonly |-> {},
      foreign |-> {}],
     [present |-> {PathOf("work", TxtA), PathOf("work", TxtA1)}, readonly |-> {},
      foreign |-> {PathOf("work", TxtA1)}],
     [present |-> {PathOf("work", TxtA)}, readonly |-> {"work"}, foreign |-> {}]}

\* use_ml with the classifier state _load_ml_model leaves
MLSetups == {[use_ml |-> FALSE, ml |-> MLUntrained, models_dir |-> DirLocal],
             [use_ml |-> TRUE, ml |-> MLUntrained, models_dir |-> DirEmpty],
             [use_ml |-> TRUE, ml |-> MLLocal, models_dir |-> DirLocal],
             [use_ml |-> TRUE, ml |-> MLNoVectors, models_dir |-> DirLocalNoVectors]}

\* _create_category_folders: one folder per configured category
CreatedFolders(cats) == {cats[i].name : i \in 1..Len(cats)}

\* The locals of one loop iteration of sort_all, for a thread that other
\* threads interrupt: at is "loop" (before extract_text_from_file, line 436),
\* "count" (categorize_file returned, line 440), "sort_file" (line 448),
\* "resolve" (sort_file has its category, line 348) or "place" (line 356);
\* text and category are the locals of sort_all, decided is the classifier
\* that gave category, counted the counter that was incremented, placed_in
\* and res the category and the resolution of sort_file.
NoFrame == [at |-> "loop", text |-> None, category |-> "other", decided |-> "none",
            counted |-> "none", placed_in |-> "other",
            res |-> Resolution(PathOf("other", TxtA), FALSE, FALSE)]

\* a directory that does not exist yet
SortedDir == "data/sorted"
NoTree == [target |-> <<>>, folders |-> {}, readonly |-> {}, foreign |-> {}]

\* a new process: no classifier has warned, the controller is idle and shows
\* the directories data/raw and data/sorted, which are the directories of
\* the FileSorter as well
InitProcess ==
    /\ _shape_warning_emitted = FALSE
    /\ shape_warnings = 0
    /\ _is_sorting = FALSE
    /\ signals = <<>>
    /\ workers = <<>>
    /\ _source_dir = RawDir
    /\ _target_dir = SortedDir
    /\ _total = 0
    /\ _sorted = 0
    /\ _skipped = 0
    /\ _failed = 0
    /\ source_dir = RawDir
    /\ target_dir = SortedDir
    /\ elsewhere = NoTree
    /\ frame = NoFrame

InitRunState ==
    /\ InitProcess
    /\ pc = "idle"
    /\ files = <<>>
    /\ idx = 1
    /\ sorted_count = 0
    /\ failed_count = 0
    /\ skipped_count = 0
    /\ by_category = NoCounts
    /\ ml_used = 0
    /\ rules_used = 0
    /\ stats = NoStats
    /\ run = 1
    /\ history = <<>>

InitRun == InitRunState /\ probe = [op |-> "none"]

InitSorterWith(policies, minima) ==
    /\ conflict_resolution \in policies
    /\ copy_files \in BOOLEAN
    /\ \E m \in MLSetups : use_ml = m.use_ml /\ ml = m.ml /\ models_dir = m.models_dir
    /\ min_confidence_score \in minima
    /\ ml_confidence_threshold = MLThresholdDefault
    /\ categories \in CategorySets
    /\ \E b \in Batches : \E o \in Orders(Len(b)) : source = BatchFilesIn(b, o)
    /\ \E e \in Environments :
          /\ target = [p \in e.present |-> OldData]
          /\ readonly = e.readonly
          /\ foreign = e.foreign
          /\ installed = OptionalLibraries
          /\ folders = {p.dir : p \in e.present} \cup CreatedFolders(categories)
    /\ InitRun

InitSorter(policies) == InitSorterWith(policies, {MinConfidenceDefault})

Init == InitSorter(Policies \cup {UnknownPolicy})

Next == SortAllStart \/ ProcessFile \/ SortAllFinish

Spec == Init /\ [][Next]_vars

\* two runs in a row under policy skip
InitTwice == InitSorter({"skip"})
NextTwice == SortAllStart \/ ProcessFile \/ SortAllFinish \/ SortAgain
SpecTwice == InitTwice /\ [][NextTwice]_vars

\* a configuration with min_confidence_score: 0, the least value that the
\* validation of _load_config accepts
InitZeroMinimum == InitSorterWith(Policies, {0})
SpecZeroMinimum == InitZeroMinimum /\ [][Next]_vars

\* the end-to-end setting: copy_files = true, use_ml = false, up to MaxBatch files
EndToEndBatches == UNION {[1..n -> Samples] : n \in 0..MaxBatch}
InitEndToEnd ==
    /\ conflict_resolution \in Policies
    /\ copy_files = TRUE
    /\ use_ml = FALSE
    /\ ml = MLUntrained
    /\ models_dir = DirEmpty
    /\ min_confidence_score = MinConfidenceDefault
    /\ ml_confidence_threshold = MLThresholdDefault
    /\ categories \in CategorySets
    /\ \E b \in EndToEndBatches : \E o \in Orders(Len(b)) : source = BatchFilesIn(b, o)
    /\ \E e \in Environments :
          /\ target = [p \in e.present |-> OldData]
          /\ readonly = e.readonly
          /\ foreign = e.foreign
          /\ installed = OptionalLibraries
          /\ folders = {p.dir : p \in e.present} \cup CreatedFolders(categories)
    /\ InitRun
SpecEndToEnd == InitEndToEnd /\ [][Next]_vars

(***************************************************************************)
(* Direct calls of _resolve_conflict and sort_file on one FileSorter, as   *)
(* the unit tests make them: the policy is assigned on config.settings,    *)
(* the target folder holds any of work/a.txt, work/a_1.txt, ...            *)
(***************************************************************************)
CallPaths == {PathOf("work", FileName("a", <<>>, ".txt"))}
             \cup {PathOf("work", FileName("a", <<k>>, ".txt")) : k \in 1..MaxCounter}

ResolveCall ==
    /\ probe.op = "none"
    /\ \E path \in CallPaths :
          probe' = [op |-> "resolve_conflict", path |-> path,
                    existed |-> Exists(path), result |-> resolve_conflict(path)]
    /\ UNCHANGED <<configVars, logVars, guiVars, dirVars, frame, mlVars, fsVars, runVars>>

\* sort_file classifies the text only when text.strip() is not empty
SortFileWarns(text) ==
    use_ml /\ text.some /\ StripNonEmpty(text.text) /\ PredictWarns(text.text)

SortFileCalled(file, placed) ==
    /\ placed.result /= "raised"
    /\ probe' = [op |-> "sort_file", file |-> file,
                 desired |-> PathOf(placed.category, file.name),
                 existed |-> Exists(PathOf(placed.category, file.name)),
                 result |-> placed.result,
                 target_before |-> target, source_before |-> source]
    /\ target' = TargetAfter(file, placed)
    /\ source' = SourceAfter(file, placed)
    /\ foreign' = ForeignAfter(file, placed)
    /\ LogShapeWarning(SortFileWarns(extract_text_from_file(file)))

SortFileCall ==
    /\ probe.op = "none"
    /\ \E i \in 1..Len(source) : SortFileCalled(source[i], sort_file(source[i]))
    /\ UNCHANGED <<configVars, guiVars, dirVars, frame, mlVars, folders, readonly, installed, runVars>>

InitCalls ==
    /\ conflict_resolution \in Policies \cup {UnknownPolicy}
    /\ copy_files \in BOOLEAN
    /\ use_ml = FALSE
    /\ ml = MLUntrained
    /\ models_dir = DirEmpty
    /\ min_confidence_score = MinConfidenceDefault
    /\ ml_confidence_threshold = MLThresholdDefault
    /\ categories = CatsFull
    /\ \E s \in Samples : source = BatchFiles(<<s>>)
    /\ \E present \in SUBSET CallPaths :
          /\ target = [p \in present |-> OldData]
          /\ foreign \in SUBSET (present \cap {PathOf("work", TxtA)})
    /\ readonly \in {{}, {"work"}}
    /\ installed = OptionalLibraries
    /\ folders = CreatedFolders(categories)
    /\ InitRun

NextCalls == ResolveCall \/ SortFileCall
SpecCalls == InitCalls /\ [][NextCalls]_vars

(***************************************************************************)
(* Direct calls of categorize_with_ml on every text up to MaxTextLen.      *)
(***************************************************************************)
Alphabet == {"w", "W", "p", "z", "f", "x", "a", " "}
Texts == UNION {[1..n -> Alphabet] : n \in 0..MaxTextLen}
Thresholds == {0, MLThresholdDefault, 10}
\* min_confidence_score values the validation of _load_config accepts (>= 0)
MinConfidences == {0, MinConfidenceDefault, 20}

\* a direct call of categorize_with_rules
RulesCall ==
    /\ probe.op = "none"
    /\ \E text \in Texts :
          probe' = [op |-> "categorize_with_rules", text |-> text,
                    result |-> categorize_with_rules(text)]
    /\ UNCHANGED <<configVars, logVars, guiVars, dirVars, frame, mlVars, fsVars, runVars>>

ClassifyCall ==
    /\ probe.op = "none"
    /\ \E text \in Texts :
          /\ probe' = [op |-> "categorize_with_ml", text |-> text,
                       result |-> categorize_with_ml(text)]
          /\ LogShapeWarning(use_ml /\ PredictWarns(text))
    /\ UNCHANGED <<configVars, guiVars, dirVars, frame, mlVars, fsVars, runVars>>

InitClassify ==
    /\ conflict_resolution = "rename"
    /\ copy_files = TRUE
    /\ use_ml \in BOOLEAN
    /\ ml \in MLStates
    /\ models_dir = DirOf(ml)
    /\ min_confidence_score \in MinConfidences
    /\ ml_confidence_threshold \in Thresholds
    /\ categories \in CategorySets
    /\ source = <<>>
    /\ target = <<>>
    /\ readonly = {}
    /\ foreign = {}
    /\ installed = OptionalLibraries
    /\ folders = CreatedFolders(categories)
    /\ InitRun

\* a direct call of predict_category
PredictCall ==
    /\ probe.op = "none"
    /\ \E text \in Texts :
          /\ probe' = [op |-> "predict_category", text |-> text,
                       result |-> predict_category(text)]
          /\ LogShapeWarning(PredictWarns(text))
    /\ UNCHANGED <<configVars, guiVars, dirVars, frame, mlVars, fsVars, runVars>>

NextClassify == ClassifyCall \/ RulesCall \/ PredictCall
SpecClassify == InitClassify /\ [][NextClassify]_vars

(***************************************************************************)
(* Calls of load_model, load_pretrained_model, train_word2vec and          *)
(* save_model, in any order, on one MLClassifier over one models_dir, and  *)
(* of create_category_vectors of utils/create_category_vectors.py over the *)
(* same directory.                                                         *)
(***************************************************************************)
TrainingSets ==
    {<<>>,
     <<Data("work", <<<<" ">>>>)>>,
     <<Data("work", <<<<"w">>, <<"w", " ", "x">>>>), Data("finance", <<<<"f">>>>)>>,
     <<Data("work", <<<<"w">>>>), Data("travel", <<<<" ">>, <<>>>>)>>}
\* the vectors a training run can give a token (vector_size components)
TrainedVectors == {<<1, 0>>, <<0, 1>>}
Embeddings(training_data) ==
    [Vocabulary(AllSentences(training_data, 1)) -> TrainedVectors]

Called(op, before, outcome, data) ==
    /\ probe.calls < MaxCalls
    /\ ml' = outcome.ml
    /\ probe' = [op |-> op, calls |-> probe.calls + 1, ok |-> outcome.ok,
                 before |-> before, training_data |-> data]
    /\ UNCHANGED <<configVars, logVars, guiVars, dirVars, frame, models_dir, fsVars, runVars>>

LoadModelCall == Called("load_model", ml, load_model(ml, models_dir), <<>>)

LoadPretrainedCall ==
    Called("load_pretrained_model", ml, load_pretrained_model(ml, models_dir), <<>>)

TrainCall ==
    \E training_data \in TrainingSets : \E emb \in Embeddings(training_data) :
        Called("train_word2vec", ml, train_word2vec(ml, training_data, emb), training_data)

\* create_category_vectors of utils/create_category_vectors.py, start to end:
\* no training data returns False; a classifier of its own, made with
\* use_pretrained=True, is loaded (False when load_model fails);
\* _create_category_vectors runs on it without training (False when it
\* leaves no vector); save_model writes the directory and its result is
\* returned.  The classifier of the other calls is another object and is left
\* alone; probe.classifier is the function's own at its return.
CreateVectorsCall ==
    /\ probe.calls < MaxCalls
    /\ \E training_data \in TrainingSets :
          LET loaded == load_model(MLUntrained, models_dir)
              classifier == create_category_vectors(loaded.ml, training_data, 1)
              saved == save_model(classifier, models_dir)
              returned ==
                  IF Len(training_data) = 0
                  THEN [ok |-> FALSE, dir |-> models_dir, classifier |-> MLUntrained]
                  ELSE IF ~loaded.ok
                  THEN [ok |-> FALSE, dir |-> models_dir, classifier |-> loaded.ml]
                  ELSE IF Len(classifier.category_vectors) = 0
                  THEN [ok |-> FALSE, dir |-> models_dir, classifier |-> classifier]
                  ELSE [ok |-> saved.ok, dir |-> saved.dir, classifier |-> classifier]
          IN  /\ models_dir' = returned.dir
              /\ probe' = [op |-> "create_category_vectors", calls |-> probe.calls + 1,
                           ok |-> returned.ok, before |-> ml,
                           training_data |-> training_data,
                           classifier |-> returned.classifier]
    /\ UNCHANGED <<configVars, logVars, guiVars, dirVars, frame, ml, fsVars, runVars>>

SaveModelCalled(before, saved) ==
    /\ probe.calls < MaxCalls
    /\ models_dir' = saved.dir
    /\ probe' = [op |-> "save_model", calls |-> probe.calls + 1, ok |-> saved.ok,
                 before |-> before, training_data |-> <<>>]
    /\ UNCHANGED <<configVars, logVars, guiVars, dirVars, frame, ml, fsVars, runVars>>

SaveModelCall == SaveModelCalled(ml, save_model(ml, models_dir))

InitModel ==
    /\ conflict_resolution = "rename"
    /\ copy_files = TRUE
    /\ use_ml = TRUE
    /\ \E use_pretrained \in BOOLEAN :
          ml = Classifier(FALSE, NoModel, FALSE, <<>>, use_pretrained)
    /\ models_dir \in Dirs
    /\ min_confidence_score = MinConfidenceDefault
    /\ ml_confidence_threshold = MLThresholdDefault
    /\ categories = CatsFull
    /\ source = <<>>
    /\ target = <<>>
    /\ readonly = {}
    /\ foreign = {}
    /\ installed = OptionalLibraries
    /\ folders = CreatedFolders(categories)
    /\ InitProcess
    /\ pc = "idle"
    /\ files = <<>>
    /\ idx = 1
    /\ sorted_count = 0
    /\ failed_count = 0
    /\ skipped_count = 0
    /\ by_category = NoCounts
    /\ ml_used = 0
    /\ rules_used = 0
    /\ stats = NoStats
    /\ run = 1
    /\ history = <<>>
    /\ probe = [op |-> "none", calls |-> 0, ok |-> TRUE, before |-> ml,
                training_data |-> <<>>]

NextModel ==
    LoadModelCall \/ LoadPretrainedCall \/ TrainCall \/ CreateVectorsCall \/ SaveModelCall
SpecModel == InitModel /\ [][NextModel]_vars

(***************************************************************************)
(* Direct calls of _cosine_similarity on every pair of vectors of up to    *)
(* MaxDim components.                                                      *)
(***************************************************************************)
Components == {-1, 0, 1}
VectorsUpTo == UNION {[1..n -> Components] : n \in 0..MaxDim}

CosineCall ==
    /\ probe.op = "none"
    /\ \E vec1 \in VectorsUpTo : \E vec2 \in VectorsUpTo :
          /\ probe' = [op |-> "cosine_similarity", vec1 |-> vec1, vec2 |-> vec2,
                       result |-> cosine_similarity(vec1, vec2)]
          /\ LogShapeWarning(Len(vec1) /= Len(vec2))
    /\ UNCHANGED <<configVars, guiVars, dirVars, frame, mlVars, fsVars, runVars>>

InitVectors ==
    /\ conflict_resolution = "rename"
    /\ copy_files = TRUE
    /\ use_ml = FALSE
    /\ ml = MLUntrained
    /\ models_dir = DirEmpty
    /\ min_confidence_score = MinConfidenceDefault
    /\ ml_confidence_threshold = MLThresholdDefault
    /\ categories = CatsDefault
    /\ source = <<>>
    /\ target = <<>>
    /\ readonly = {}
    /\ foreign = {}
    /\ installed = OptionalLibraries
    /\ folders = CreatedFolders(categories)
    /\ InitRun

NextVectors == CosineCall
SpecVectors == InitVectors /\ [][NextVectors]_vars

(***************************************************************************)
(* Several MLClassifier instances in one process: comparisons on the       *)
(* current instance and the construction of a new one, in any order.       *)
(***************************************************************************)
References == {<<1>>, <<1, 0>>}

\* _cosine_similarity on the current instance
CompareCall ==
    /\ probe.calls < MaxCalls
    /\ \E vec1 \in VectorsUpTo : \E vec2 \in References :
          /\ probe' = [op |-> "cosine_similarity", calls |-> probe.calls + 1,
                       vec1 |-> vec1, vec2 |-> vec2,
                       result |-> cosine_similarity(vec1, vec2)]
          /\ LogShapeWarning(Len(vec1) /= Len(vec2))
    /\ UNCHANGED <<configVars, guiVars, dirVars, frame, mlVars, fsVars, runVars>>

\* MLClassifier(): the new instance starts with _shape_warning_emitted = False
\* (FileSorter.__init__ constructs one for every sorter)
NewClassifierCall ==
    /\ probe.calls < MaxCalls
    /\ probe' = [op |-> "MLClassifier", calls |-> probe.calls + 1,
                 vec1 |-> <<>>, vec2 |-> <<>>, result |-> Zero]
    /\ _shape_warning_emitted' = FALSE
    /\ UNCHANGED <<configVars, shape_warnings, guiVars, dirVars, frame, mlVars, fsVars, runVars>>

InitWarnings ==
    /\ conflict_resolution = "rename"
    /\ copy_files = TRUE
    /\ use_ml = FALSE
    /\ ml = MLUntrained
    /\ models_dir = DirEmpty
    /\ min_confidence_score = MinConfidenceDefault
    /\ ml_confidence_threshold = MLThresholdDefault
    /\ categories = CatsDefault
    /\ source = <<>>
    /\ target = <<>>
    /\ readonly = {}
    /\ foreign = {}
    /\ installed = OptionalLibraries
    /\ folders = CreatedFolders(categories)
    /\ InitRunState
    /\ probe = [op |-> "none", calls |-> 0, vec1 |-> <<>>, vec2 |-> <<>>,
                result |-> Zero]

NextWarnings == CompareCall \/ NewClassifierCall
SpecWarnings == InitWarnings /\ [][NextWarnings]_vars

(***************************************************************************)
(* AppController: the slots run on the GUI thread, the function worker of  *)
(* sortFiles on a thread of its own.  A worker is at "try" (before         *)
(* FileSorter(source, target)), at "sort_all" (the sorter is constructed   *)
(* and sort_all runs), at "_sorted", "_skipped" or "_failed" (the          *)
(* statement that stores this counter is next), at "finally" (the try      *)
(* block returned or raised and the exception was caught), at "emit"       *)
(* (after _is_sorting = False, before sortingFinished.emit()) or           *)
(* "exited".  _is_sorting is reset in the                                  *)
(* finally block only, so at most one worker is between "try" and          *)
(* "finally", and the variables of one sort_all call serve every worker.   *)
(* Of the signals, sortingStarted and sortingFinished are recorded; the    *)
(* copies _copy_files, _use_ml, _conflict_resolution and the status texts  *)
(* _ml_info, _ml_ready, _ml_enabled that the window shows are not.         *)
(***************************************************************************)
Worker(at, outcome, src, tgt) ==
    [at |-> at, outcome |-> outcome, source |-> src, target |-> tgt]

\* the directories that can be chosen in the window: RawDir exists,
\* MissingDir does not; SortedDir and BackupDir are created when missing,
\* and BlockedDir lies under a file, where mkdir raises NotADirectoryError
MissingDir == "data/missing"
BackupDir == "data/backup"
BlockedDir == "/dev/null/sorted"
SourceDirs == {RawDir, MissingDir}
TargetDirs == {SortedDir, BackupDir, BlockedDir}

\* a slot called from the window, the calls counted up to MaxSlots
Slot(op) ==
    /\ probe.calls < MaxSlots
    /\ probe' = [op |-> op, calls |-> probe.calls + 1, started |-> FALSE]

\* the setter of the property sourceDir
setSourceDir ==
    /\ Slot("setSourceDir")
    /\ \E value \in SourceDirs \cup {""} :
          _source_dir' = IF value /= "" /\ value /= _source_dir THEN value
                         ELSE _source_dir
    /\ UNCHANGED <<configVars, logVars, mlVars, fsVars, dirVars, frame, runVars,
                   _is_sorting, signals, workers, _target_dir, shownVars>>

\* the setter of the property targetDir
setTargetDir ==
    /\ Slot("setTargetDir")
    /\ \E value \in TargetDirs \cup {""} :
          _target_dir' = IF value /= "" /\ value /= _target_dir THEN value
                         ELSE _target_dir
    /\ UNCHANGED <<configVars, logVars, mlVars, fsVars, dirVars, frame, runVars,
                   _is_sorting, signals, workers, _source_dir, shownVars>>

\* the slot setCopyFiles: get_config().settings.copy_files = bool(value)
setCopyFiles ==
    /\ Slot("setCopyFiles")
    /\ \E value \in BOOLEAN : copy_files' = value
    /\ UNCHANGED <<conflict_resolution, use_ml, min_confidence_score,
                   ml_confidence_threshold, categories, logVars, mlVars, fsVars,
                   dirVars, frame, runVars, guiVars>>

\* the slot setUseMl: get_config().settings.use_ml = bool(value)
setUseMl ==
    /\ Slot("setUseMl")
    /\ \E value \in BOOLEAN : use_ml' = value
    /\ UNCHANGED <<conflict_resolution, copy_files, min_confidence_score,
                   ml_confidence_threshold, categories, logVars, mlVars, fsVars,
                   dirVars, frame, runVars, guiVars>>

\* the slot setConflictResolution: a mode that is none of skip, overwrite,
\* rename is ignored
setConflictResolution ==
    /\ Slot("setConflictResolution")
    /\ \E mode \in Policies \cup {UnknownPolicy} :
          conflict_resolution' = IF mode \notin {"skip", "overwrite", "rename"}
                                 THEN conflict_resolution
                                 ELSE mode
    /\ UNCHANGED <<copy_files, use_ml, min_confidence_score,
                   ml_confidence_threshold, categories, logVars, mlVars, fsVars,
                   dirVars, frame, runVars, guiVars>>

\* one click on the sort button
sortFiles ==
    /\ probe.calls < MaxSlots
    /\ IF _is_sorting
       THEN /\ probe' = [op |-> "sortFiles", calls |-> probe.calls + 1,
                         started |-> FALSE]
            /\ UNCHANGED <<_is_sorting, signals, workers>>
       ELSE /\ _is_sorting' = TRUE
            /\ signals' = Append(signals, "sortingStarted")
            /\ workers' = Append(workers,
                                 Worker("try", "running", _source_dir, _target_dir))
            /\ probe' = [op |-> "sortFiles", calls |-> probe.calls + 1,
                         started |-> TRUE]
    /\ UNCHANGED <<configVars, logVars, mlVars, fsVars, dirVars, frame, runVars,
                   chosenVars, shownVars>>

\* the tree of the directory the FileSorter works on
Tree == [target |-> target, folders |-> folders, readonly |-> readonly,
         foreign |-> foreign]

\* MLClassifier(use_pretrained=True), then _load_ml_model
LoadedClassifier ==
    IF use_ml THEN load_model(MLUntrained, models_dir).ml ELSE MLUntrained

\* sorter = FileSorter(source, target): the fields, a classifier of its own,
\* the model loaded when use_ml is set, and _create_category_folders in the
\* directory target
NewSorter(w, tree) ==
    /\ workers' = [workers EXCEPT ![w].at = "sort_all"]
    /\ source_dir' = workers[w].source
    /\ target_dir' = workers[w].target
    /\ elsewhere' = IF workers[w].target = target_dir THEN elsewhere ELSE Tree
    /\ target' = tree.target
    /\ folders' = tree.folders \cup CreatedFolders(categories)
    /\ readonly' = tree.readonly
    /\ foreign' = tree.foreign
    /\ ml' = LoadedClassifier
    /\ _shape_warning_emitted' = FALSE
    /\ pc' = "idle"
    /\ stats' = NoStats
    /\ run' = w
    /\ frame' = NoFrame

\* self.target_dir.mkdir(parents=True, exist_ok=True) raises: no FileSorter
\* comes into being, and "except Exception" of the worker catches the error
NoSorter(w) ==
    /\ workers' = [workers EXCEPT ![w].at = "finally", ![w].outcome = "raised"]
    /\ UNCHANGED <<dirVars, frame, target, folders, readonly, foreign, ml,
                   _shape_warning_emitted, pc, stats, run>>

WorkerNewSorter ==
    /\ \E w \in 1..Len(workers) :
          /\ workers[w].at = "try"
          /\ IF workers[w].target = BlockedDir THEN NoSorter(w)
             ELSE NewSorter(w, IF workers[w].target = target_dir THEN Tree
                               ELSE elsewhere)
    /\ UNCHANGED <<configVars, shape_warnings, models_dir, source, installed, files,
                   idx, sorted_count, failed_count, skipped_count, by_category,
                   ml_used, rules_used, history, probe, _is_sorting, signals,
                   chosenVars, shownVars>>

\* a worker is inside sorter.sort_all(show_progress=False)
Sorting == \E w \in 1..Len(workers) : workers[w].at = "sort_all"

\* the loop of sort_all can take a step
InLoop == Sorting /\ pc = "running" /\ idx <= Len(files)

\* The loop iteration of a worker thread.  The slots assign the settings
\* object while the iteration runs, so the iteration is a step for each time
\* it reads use_ml, conflict_resolution or copy_files.

\* lines 436-438: text = extract_text_from_file(file_path) and
\* category = self.categorize_file(text), or 'other'
LoopClassified(text) ==
    /\ frame' = [frame EXCEPT !.at = "count", !.text = text,
                              !.category = StatsCategory(text),
                              !.decided = Decided(text)]
    /\ LogShapeWarning(ClassifyWarns(text))

LoopClassify ==
    /\ InLoop
    /\ frame.at = "loop"
    /\ LoopClassified(extract_text_from_file(files[idx]))
    /\ UNCHANGED <<configVars, guiVars, dirVars, mlVars, fsVars, runVars, probe>>

\* lines 440-446: the method counter, by use_ml and is_trained as they are now
LoopCount ==
    /\ InLoop
    /\ frame.at = "count"
    /\ CountUnder(CountedAs(frame.text))
    /\ frame' = [frame EXCEPT !.at = "sort_file", !.counted = CountedAs(frame.text)]
    /\ UNCHANGED <<configVars, logVars, guiVars, dirVars, mlVars, fsVars, pc, files,
                   idx, sorted_count, failed_count, skipped_count, by_category,
                   stats, run, history, probe>>

\* sort_file, lines 339-346: the text is extracted and classified again
SortFileClassified(text) ==
    /\ frame' = [frame EXCEPT !.at = "resolve", !.placed_in = CategoryFor(text)]
    /\ LogShapeWarning(SortFileWarns(text))

SortFileClassify ==
    /\ InLoop
    /\ frame.at = "sort_file"
    /\ SortFileClassified(extract_text_from_file(files[idx]))
    /\ UNCHANGED <<configVars, guiVars, dirVars, mlVars, fsVars, runVars, probe>>

\* sort_file, lines 348-351: target_path and _resolve_conflict
SortFileResolve ==
    /\ InLoop
    /\ frame.at = "resolve"
    /\ frame' = [frame EXCEPT
                    !.at = "place",
                    !.res = resolve_conflict(PathOf(frame.placed_in, files[idx].name))]
    /\ UNCHANGED <<configVars, logVars, guiVars, dirVars, mlVars, fsVars, runVars,
                   probe>>

\* sort_file, lines 353-373: copy2 or move by copy_files as it is now, and
\* lines 449-455 of the loop
SortFilePlace ==
    /\ InLoop
    /\ frame.at = "place"
    /\ LoopTally(files[idx], frame.text, frame.category,
                 Placement(files[idx], frame.placed_in, frame.res),
                 frame.counted, frame.decided)
    /\ frame' = NoFrame
    /\ UNCHANGED <<configVars, logVars, guiVars, dirVars, mlVars, folders, readonly,
                   installed, files, ml_used, rules_used, stats, run, probe>>

\* stats = sorter.sort_all(show_progress=False), a step at a time
WorkerScan == Sorting /\ SortAllStart
WorkerProcessFile ==
    LoopClassify \/ LoopCount \/ SortFileClassify \/ SortFileResolve \/ SortFilePlace
WorkerStatistics == Sorting /\ SortAllFinish
WorkerSortAll == WorkerScan \/ WorkerProcessFile \/ WorkerStatistics

\* the rest of the try block: sort_all returned its statistics, which are
\* stored for the window one statement at a time, or it raised, and
\* "except Exception" caught it
WorkerTry ==
    /\ \E w \in 1..Len(workers) :
          IF workers[w].at = "sort_all"
          THEN /\ pc \in {"done", "crashed"}
               /\ workers' = [workers EXCEPT ![w].at = IF pc = "done" THEN "_sorted"
                                                       ELSE "finally",
                                             ![w].outcome = IF pc = "done" THEN @
                                                            ELSE "raised"]
               /\ _total' = IF pc = "done" THEN stats.total ELSE _total
               /\ UNCHANGED <<_sorted, _skipped, _failed>>
          ELSE IF workers[w].at = "_sorted"
          THEN /\ workers' = [workers EXCEPT ![w].at = "_skipped"]
               /\ _sorted' = stats.sorted
               /\ UNCHANGED <<_total, _skipped, _failed>>
          ELSE IF workers[w].at = "_skipped"
          THEN /\ workers' = [workers EXCEPT ![w].at = "_failed"]
               /\ _skipped' = stats.skipped
               /\ UNCHANGED <<_total, _sorted, _failed>>
          ELSE /\ workers[w].at = "_failed"
               /\ workers' = [workers EXCEPT ![w].at = "finally",
                                             ![w].outcome = "returned"]
               /\ _failed' = stats.failed
               /\ UNCHANGED <<_total, _sorted, _skipped>>
    /\ UNCHANGED <<configVars, logVars, mlVars, fsVars, dirVars, frame, runVars, probe,
                   _is_sorting, signals, chosenVars>>

WorkerReset ==
    /\ \E w \in 1..Len(workers) :
          /\ workers[w].at = "finally"
          /\ workers' = [workers EXCEPT ![w].at = "emit"]
    /\ _is_sorting' = FALSE
    /\ UNCHANGED <<configVars, logVars, mlVars, fsVars, dirVars, frame, runVars, probe,
                   signals, chosenVars, shownVars>>

\* finally: self.sortingFinished.emit()
WorkerEmit ==
    /\ \E w \in 1..Len(workers) :
          /\ workers[w].at = "emit"
          /\ workers' = [workers EXCEPT ![w].at = "exited"]
    /\ signals' = Append(signals, "sortingFinished")
    /\ UNCHANGED <<configVars, logVars, mlVars, fsVars, dirVars, frame, runVars, probe,
                   _is_sorting, chosenVars, shownVars>>

\* the window opens over the default settings (_load_config replaces a policy
\* that is none of skip, overwrite, rename by rename); data/raw holds a.txt
\* with a keyword of work, data/sorted holds work/a.txt and data/backup does
\* not exist
InitGui ==
    /\ conflict_resolution = "rename"
    /\ copy_files = TRUE
    /\ use_ml = FALSE
    /\ ml = MLUntrained
    /\ models_dir = DirLocal
    /\ min_confidence_score = MinConfidenceDefault
    /\ ml_confidence_threshold = MLThresholdDefault
    /\ categories = CatsDefault
    /\ source = <<SourceFile(TxtA, TRUE, <<"w">>)>>
    /\ target = [p \in {PathOf("work", TxtA)} |-> OldData]
    /\ readonly = {}
    /\ foreign = {}
    /\ installed = OptionalLibraries
    /\ folders = {"work"}
    /\ InitRunState
    /\ probe = [op |-> "none", calls |-> 0, started |-> FALSE]

Workers == WorkerNewSorter \/ WorkerSortAll \/ WorkerTry \/ WorkerReset \/ WorkerEmit
Setters ==
    setSourceDir \/ setTargetDir \/ setCopyFiles \/ setUseMl \/ setConflictResolution
NextGui == sortFiles \/ Setters \/ Workers
SpecGui == InitGui /\ [][NextGui]_vars

\* weak fairness of the steps of the loop, written out: in the states of
\* InLoop exactly one of them is enabled, the one frame.at names (the
\* classifiers, the resolver and the counters are total there)
FairLoop == []<>(~InLoop) \/ []<><<WorkerProcessFile>>_vars

\* every thread that can take a step is scheduled in the end
SpecGuiFair ==
    /\ SpecGui
    /\ WF_vars(WorkerNewSorter) /\ WF_vars(WorkerScan) /\ FairLoop
    /\ WF_vars(WorkerStatistics) /\ WF_vars(WorkerTry)
    /\ WF_vars(WorkerReset) /\ WF_vars(WorkerEmit)

(***************************************************************************)
(* Direct calls of extract_text_from_file on files of every supported      *)
(* kind, present or missing, with any set of optional libraries.           *)
(***************************************************************************)
NoDoc == [kind |-> "none"]
Document(suffix, ok, text, doc) == [suffix |-> suffix, ok |-> ok, text |-> text, doc |-> doc]
JsonValue(v) == [kind |-> "value", value |-> v]

\* value wrapped in n arrays: value is at depth n
RECURSIVE Nest(_, _)
Nest(value, n) == IF n = 0 THEN value ELSE JArr(<<Nest(value, n - 1)>>)

\* {"a": 1, "b": ["x", "y"]}
JsonExample ==
    JObj(<<Item(<<"a">>, JNum(1)),
           Item(<<"b">>, JArr(<<JStr(<<"x">>), JStr(<<"y">>)>>))>>)

JsonValues ==
    <<JsonExample,
      JObj(<<Item(<<"a">>, JStr(<<" ">>))>>),
      JArr(<<JNull, JBool(TRUE), JNum(-12), JStr(<<>>)>>),
      JStr(<<"x">>),
      JObj(<<>>),
      Nest(JStr(<<"x">>), JsonMaxDepth),
      Nest(JStr(<<"x">>), JsonMaxDepth + 1),
      JObj(<<Item(<<"k">>, Nest(JObj(<<Item(<<"a">>, JNum(1))>>), JsonMaxDepth - 1))>>)>>

\* <root><title>F</title><item amount="2">b</item> </root>
XmlExample ==
    Elem(<<>>, <<>>, <<>>,
         <<Elem(<<"F">>, <<>>, <<>>, <<>>),
           Elem(<<"b">>, <<<<"2">>>>, <<" ">>, <<>>)>>)

Documents ==
    <<Document(".txt", TRUE, <<>>, NoDoc),
      Document(".txt", TRUE, <<" ">>, NoDoc),
      Document(".txt", TRUE, <<"w">>, NoDoc),
      Document(".txt", FALSE, <<>>, NoDoc),
      Document(".TXT", TRUE, <<"w">>, NoDoc),
      Document(".pdf", TRUE, <<" ", "w", " ">>, NoDoc),
      Document(".pdf", FALSE, <<>>, NoDoc),
      Document(".docx", TRUE, <<"w">>, NoDoc),
      Document(".docx", FALSE, <<>>, NoDoc),
      Document(".bin", TRUE, <<"w">>, NoDoc),
      Document(".json", TRUE, <<" ">>, [kind |-> "blank"]),
      Document(".json", TRUE, <<"{">>, [kind |-> "invalid"]),
      Document(".json", FALSE, <<>>, [kind |-> "invalid"]),
      Document(".json", TRUE, <<"[">>, [kind |-> "too_deep"]),
      Document(".json", TRUE, <<"1">>, [kind |-> "huge_int"]),
      Document(".xml", TRUE, <<"<">>, [kind |-> "malformed"]),
      Document(".xml", TRUE, <<"&">>, [kind |-> "entity"]),
      Document(".xml", TRUE, <<"<">>, [kind |-> "tree", root |-> XmlExample])>>
    \o [i \in 1..Len(JsonValues) |-> Document(".json", TRUE, <<"{">>, JsonValue(JsonValues[i]))]

\* the documents as files f_1, f_2, ... of the source directory
ExtractFiles ==
    [i \in 1..Len(Documents) |->
        [name |-> FileName("f", <<i>>, Documents[i].suffix), ok |-> Documents[i].ok,
         text |-> Documents[i].text, doc |-> Documents[i].doc]]

ExtractCall ==
    /\ probe.op = "none"
    /\ \E i \in 1..Len(ExtractFiles) :
          probe' = [op |-> "extract_text_from_file", file |-> ExtractFiles[i],
                    parser |-> IF SuffixLower(ExtractFiles[i].name.suffix) = ".xml"
                               THEN XmlParser ELSE "none",
                    result |-> extract_text_from_file(ExtractFiles[i])]
    /\ UNCHANGED <<configVars, logVars, guiVars, dirVars, frame, mlVars, fsVars, runVars>>

InitExtract ==
    /\ conflict_resolution = "rename"
    /\ copy_files = TRUE
    /\ use_ml = FALSE
    /\ ml = MLUntrained
    /\ models_dir = DirEmpty
    /\ min_confidence_score = MinConfidenceDefault
    /\ ml_confidence_threshold = MLThresholdDefault
    /\ categories = CatsDefault
    /\ source \in {<<>>, ExtractFiles}
    /\ target = <<>>
    /\ readonly = {}
    /\ foreign = {}
    /\ installed \in SUBSET OptionalLibraries
    /\ folders = CreatedFolders(categories)
    /\ InitRun

NextExtract == ExtractCall
SpecExtract == InitExtract /\ [][NextExtract]_vars

(***************************************************************************)
(* Properties.                                                             *)
(***************************************************************************)
Entries == {history[i] : i \in 1..Len(history)}
Unextractable(text) == ~text.some \/ ~StripNonEmpty(text.text)

\* C1: every sort_all call, whatever the batch, the configuration (any
\* conflict_resolution value included) and the target tree, returns a
\* statistics record; a problem with one file is recorded as failed or skipped
\* for that file and every file of the batch is processed.
C1_RunReturnsStatistics ==
    /\ pc /= "crashed"
    /\ \A h \in Entries : h.result \in {"sorted", "skipped", "failed"}
    /\ pc = "done" => stats.returned /\ Len(history) = Len(files)

\* C2: under policy rename, for a path that exists, _resolve_conflict returns
\* (parent/stem_k.ext, True) with k the smallest integer >= 1 whose path does
\* not exist: a_1.txt when only a.txt is there, a_2.txt when a_1.txt is there
\* too; the returned path does not exist.
FirstUnused(path, res) ==
    \E k \in 1..(Cardinality(DOMAIN target) + 1) :
        /\ res.path = PathOf(path.dir, Renamed(path.name, k))
        /\ \A j \in 1..(k - 1) : Exists(PathOf(path.dir, Renamed(path.name, j)))
C2_RenameFirstUnused ==
    (probe.op = "resolve_conflict" /\ conflict_resolution = "rename" /\ probe.existed)
    => /\ ~probe.result.raised
       /\ probe.result.should_process
       /\ ~Exists(probe.result.path)
       /\ FirstUnused(probe.path, probe.result)
       /\ (probe.path = PathOf("work", TxtA) /\ ~Exists(PathOf("work", TxtA1)))
              => probe.result.path = PathOf("work", TxtA1)
       /\ (probe.path = PathOf("work", TxtA) /\ Exists(PathOf("work", TxtA1))
              /\ ~Exists(PathOf("work", FileName("a", <<2>>, ".txt"))))
              => probe.result.path = PathOf("work", FileName("a", <<2>>, ".txt"))
C2_Witness ==
    /\ probe.op = "resolve_conflict"
    /\ conflict_resolution = "rename"
    /\ probe.path = PathOf("work", TxtA)
    /\ probe.existed
    /\ Exists(PathOf("work", TxtA1))
    /\ probe.result.path = PathOf("work", FileName("a", <<2>>, ".txt"))

\* C3: under policy skip, _resolve_conflict returns should_process = False for
\* a path that exists, and sort_file then reports 'skipped' and copies or moves
\* nothing; for a path that does not exist it returns (that path, True).
C3_SkipExisting ==
    conflict_resolution = "skip"
    => /\ (probe.op = "resolve_conflict" /\ probe.existed)
              => ~probe.result.should_process /\ ~probe.result.raised
       /\ (probe.op = "resolve_conflict" /\ ~probe.existed)
              => probe.result = Resolution(probe.path, TRUE, FALSE)
       /\ (probe.op = "sort_file" /\ probe.existed)
              => /\ probe.result = "skipped"
                 /\ target = probe.target_before
                 /\ source = probe.source_before
C3_Witness ==
    /\ conflict_resolution = "skip"
    /\ probe.op = "sort_file"
    /\ probe.existed
    /\ probe.result = "skipped"

\* C4: under policy overwrite, _resolve_conflict returns the given path
\* unchanged with should_process = True, whether or not the path exists.
C4_OverwriteKeepsPath ==
    (probe.op = "resolve_conflict" /\ conflict_resolution = "overwrite")
    => probe.result = Resolution(probe.path, TRUE, FALSE)
C4_Witness ==
    /\ probe.op = "resolve_conflict"
    /\ conflict_resolution = "overwrite"
    /\ probe.existed
    /\ probe.result.path = probe.path
    /\ probe.result.should_process

\* C5: with a conflict_resolution value other than skip, overwrite and rename,
\* _resolve_conflict behaves as under rename: it returns the path itself when
\* unused, else the first unused stem_k.ext, with should_process = True, and
\* raises nothing.
C5_UnknownPolicyAsRename ==
    (probe.op = "resolve_conflict" /\ conflict_resolution \notin Policies)
    => /\ ~probe.result.raised
       /\ probe.result.should_process
       /\ ~Exists(probe.result.path)
       /\ IF probe.existed THEN FirstUnused(probe.path, probe.result)
          ELSE probe.result.path = probe.path

\* C6: categorize_with_ml returns what predict_category returns exactly when
\* use_ml is on, the model is trained, a category is predicted and its
\* similarity is >= ml_confidence_threshold; otherwise it returns what
\* categorize_with_rules returns for the text.
MLCase(predicted) ==
    /\ use_ml
    /\ ml.is_trained
    /\ predicted.category /= NoneCat
    /\ ConfGEtenths(predicted.confidence, ml_confidence_threshold)
MLOrRulesAsClaimed(result, predicted, rules) ==
    IF MLCase(predicted) THEN result = predicted ELSE result = rules
C6_MLOrRules ==
    probe.op = "categorize_with_ml"
    => MLOrRulesAsClaimed(probe.result, predict_category(probe.text),
                          categorize_with_rules(probe.text))
MLAnswerDiffers(result, predicted, rules) ==
    MLCase(predicted) /\ result = predicted /\ result.category /= rules.category
C6_Witness ==
    /\ probe.op = "categorize_with_ml"
    /\ MLAnswerDiffers(probe.result, predict_category(probe.text),
                       categorize_with_rules(probe.text))

\* C7: a file whose extraction returns None or an empty or all-whitespace
\* string gets category other without a classifier being called on it, and is
\* counted under rules_count, never under ml_count.
C7_UnextractableIsOtherByRules ==
    \A h \in Entries :
        Unextractable(h.text)
        => /\ h.placed_in = "other"
           /\ h.category = "other"
           /\ ~h.classified_by_sort_all
           /\ ~h.classified_by_sort_file
           /\ h.counted_as = "rules"

\* C8: in the statistics of a run, ml_count is the number of files whose
\* category came from the vector model and rules_count the number of files
\* whose category came from the rule classifier, fallbacks included.
C8_MethodCounts ==
    (pc = "done" /\ stats.has_counts)
    => /\ stats.ml_count = Cardinality({i \in 1..Len(history) : history[i].decided_by = "ml"})
       /\ stats.rules_count =
              Cardinality({i \in 1..Len(history) : history[i].decided_by /= "ml"})

\* C9: when sort_all runs twice over the same source and target under policy
\* skip (on a file system that refuses no write), the second run returns
\* skipped = total and sorted = 0.
C9_SecondRunSkipsAll ==
    (run >= 2 /\ pc = "done" /\ conflict_resolution = "skip" /\ readonly = {})
    => stats.skipped = stats.total /\ stats.sorted = 0

\* C10: with copy_files = true and use_ml = false, a batch of two .txt files
\* that reach min_confidence_score for work and one .txt file that matches no
\* keyword, sorted into an empty writable target, gives sorted = 3, failed = 0,
\* skipped = 0, two files under work/ and one under other/.
MatchesWork(file) ==
    /\ file.name.suffix = ".txt"
    /\ file.ok
    /\ "work" \in {categories[i].name : i \in 1..Len(categories)}
    /\ CategoryScore(file.text, "work") >= min_confidence_score
MatchesNothing(file) ==
    /\ file.name.suffix = ".txt"
    /\ file.ok
    /\ \A i \in 1..Len(categories) : \A k \in 1..Len(categories[i].keywords) :
           Count(Lower(file.text), categories[i].keywords[k].kw) = 0
EndToEndBatch ==
    /\ Len(files) = 3
    /\ Cardinality({i \in 1..Len(files) : MatchesWork(files[i])}) = 2
    /\ Cardinality({i \in 1..Len(files) : MatchesNothing(files[i])}) = 1
\* the target tree was empty when the run began: nothing of another user is
\* in it and no file has the content of a file found at construction (the
\* names of one batch differ, so a run cannot overwrite two files found there)
FreshTarget == foreign = {} /\ \A p \in DOMAIN target : target[p] /= OldData
C10_EndToEnd ==
    (pc = "done" /\ copy_files /\ ~use_ml /\ readonly = {} /\ FreshTarget /\ EndToEndBatch)
    => /\ stats.sorted = 3
       /\ stats.failed = 0
       /\ stats.skipped = 0
       /\ Cardinality({p \in DOMAIN target : p.dir = "work"}) = 2
       /\ Cardinality({p \in DOMAIN target : p.dir = "other"}) = 1

\* C11: when the loop of sort_all reaches its first file, and at every file
\* after it, the folder target_dir/<name> exists for every configured category
\* and for the fallback category other.
C11_FoldersBeforeFirstFile ==
    pc = "running"
    => /\ \A i \in 1..Len(categories) : categories[i].name \in folders
       /\ "other" \in folders

\* C12: categorize_with_rules returns ('other', 0.0) for the empty text and
\* for every text for which no category other than other reaches
\* min_confidence_score.
NoneReaches(text) ==
    \A i \in 1..Len(categories) :
        categories[i].name /= "other"
        => CategoryScore(text, categories[i].name) < min_confidence_score
C12_RulesFallback ==
    (probe.op = "categorize_with_rules"
        /\ (Len(probe.text) = 0 \/ NoneReaches(probe.text)))
    => probe.result = Result("other", Score(0))
\* a text with a keyword of work that stays below the minimum
C12_Witness ==
    /\ probe.op = "categorize_with_rules"
    /\ Len(probe.text) > 0
    /\ NoneReaches(probe.text)
    /\ \E i \in 1..Len(categories) : CategoryScore(probe.text, categories[i].name) > 0
    /\ probe.result = Result("other", Score(0))

\* C13: categorize_with_rules never returns a category whose total weighted
\* score for the text is below min_confidence_score; a result below the
\* minimum is the fallback ('other', 0.0).
ReturnedScore(text, result) ==
    /\ result.category \in {categories[i].name : i \in 1..Len(categories)}
    /\ result.category /= "other"
    /\ result.confidence = Score(CategoryScore(text, result.category))
    /\ CategoryScore(text, result.category) >= min_confidence_score
C13_NeverBelowMinimum ==
    probe.op = "categorize_with_rules"
    => \/ probe.result = Result("other", Score(0))
       \/ ReturnedScore(probe.text, probe.result)
\* a category is returned while another one scores above zero and below the
\* minimum
C13_Witness ==
    /\ probe.op = "categorize_with_rules"
    /\ ReturnedScore(probe.text, probe.result)
    /\ \E i \in 1..Len(categories) :
          /\ categories[i].name /= "other"
          /\ CategoryScore(probe.text, categories[i].name) > 0
          /\ CategoryScore(probe.text, categories[i].name) < min_confidence_score

\* C14: after any sequence of load_model, load_pretrained_model and
\* train_word2vec calls, every reference vector in category_vectors has the
\* length of the vector size of the model the classifier holds.
C14_ReferenceVectorsFitModel ==
    ml.has_model
    => \A i \in 1..Len(ml.category_vectors) :
           Len(ml.category_vectors[i].vector) = ml.vector_size

\* C15: whenever train_word2vec returns True, from whatever state it was
\* called in, is_trained is True, a model is set, and every category of the
\* training data with a text that has a token has a reference vector of the
\* length of the new model's vector size.
HasToken(texts) == \E i \in 1..Len(texts) : Len(tokenize_text(texts[i])) > 0
HasReference(category) ==
    \E i \in 1..Len(ml.category_vectors) :
        /\ ml.category_vectors[i].category = category
        /\ Len(ml.category_vectors[i].vector) = ml.vector_size
C15_TrainedCategoriesHaveVectors ==
    (probe.op = "train_word2vec" /\ probe.ok)
    => /\ ml.is_trained
       /\ ml.has_model
       /\ \A i \in 1..Len(probe.training_data) :
              HasToken(probe.training_data[i].texts)
              => HasReference(probe.training_data[i].category)

\* C16: predict_category returns (None, 0.0) when the model is untrained, when
\* there is no reference vector, and when no token of the text resolves
\* (text_to_vector returns None); in each of these cases categorize_with_ml
\* returns what categorize_with_rules returns for the text.
CannotPredict(text_vector) ==
    \/ ~ml.is_trained
    \/ Len(ml.category_vectors) = 0
    \/ ~text_vector.some
C16_NoVectorFallsBackToRules ==
    /\ (probe.op = "predict_category" /\ CannotPredict(text_to_vector(ml, probe.text)))
           => probe.result = Result(NoneCat, Zero)
    /\ (probe.op = "categorize_with_ml" /\ CannotPredict(text_to_vector(ml, probe.text)))
           => probe.result = categorize_with_rules(probe.text)
\* the classifier is on, trained and has reference vectors, the threshold is
\* 0.0, and the one token of the text is not in the vocabulary
C16_Witness ==
    /\ probe.op = "categorize_with_ml"
    /\ use_ml
    /\ ml.is_trained
    /\ Len(ml.category_vectors) > 0
    /\ ml_confidence_threshold = 0
    /\ Len(tokenize_text(probe.text)) > 0
    /\ ~text_to_vector(ml, probe.text).some
    /\ probe.result = categorize_with_rules(probe.text)

\* C17: _cosine_similarity of two vectors of different lengths is exactly 0.0,
\* for every pair of lengths.
C17_CosineOfDifferentLengths ==
    (probe.op = "cosine_similarity" /\ Len(probe.vec1) /= Len(probe.vec2))
    => probe.result = Zero
\* two vectors of different lengths whose common components are not orthogonal
C17_Witness ==
    /\ probe.op = "cosine_similarity"
    /\ Len(probe.vec1) /= Len(probe.vec2)
    /\ DotCommon(probe.vec1, probe.vec2, 1) /= 0
    /\ probe.result = Zero

\* C18: extract_text_from_file never raises; it returns None for a file that
\* is missing, cannot be read or is corrupt and for an unrecognized extension,
\* and the empty string, not None, for a zero-length .txt file.
Corrupt(file) == ~file.ok \/ file.doc.kind \in {"invalid", "malformed"}
Recognized(suffix) == suffix \in {".txt", ".pdf", ".docx", ".doc", ".json", ".xml"}
C18_ExtractNeverRaises ==
    probe.op = "extract_text_from_file"
    => /\ probe.result /= Raises
       /\ probe.result.some \/ probe.result = None
       /\ (~InSource(probe.file) \/ Corrupt(probe.file)) => probe.result = None
       /\ ~Recognized(SuffixLower(probe.file.name.suffix)) => probe.result = None
       /\ (InSource(probe.file) /\ probe.file.ok /\ probe.file.name.suffix = ".txt"
              /\ Len(probe.file.text) = 0)
              => probe.result = Some(<<>>)
\* a .pdf that is not there: the library raises and the result is None
C18_Witness ==
    /\ probe.op = "extract_text_from_file"
    /\ probe.file.name.suffix = ".pdf"
    /\ ~InSource(probe.file)
    /\ probe.result = None

\* C19: every XML file that is parsed is parsed by the hardened parser
\* (defusedxml), whatever libraries are installed.
C19_XmlParserHardened ==
    (probe.op = "extract_text_from_file"
        /\ SuffixLower(probe.file.name.suffix) = ".xml" /\ InSource(probe.file))
    => probe.parser = "defusedxml"

\* C20 as stated: the JSON text is the fragments of the parsed value in
\* traversal order (each key, then the fragments of its value; array elements
\* in order; the string form of every non-null scalar; nothing for null;
\* nothing for values nested deeper than 32 levels) joined by single spaces,
\* and deep nesting does not make the extraction fail.
RECURSIVE Flattened(_, _), FlattenedItems(_, _, _)
Flattened(value, level) ==
    IF level > 32 THEN <<>>
    ELSE IF value.t = "obj" \/ value.t = "arr" THEN FlattenedItems(value, 1, level)
    ELSE IF value.t = "null" THEN <<>>
    ELSE <<StrOf(value)>>
FlattenedItems(value, i, level) ==
    IF i > Len(value.items) THEN <<>>
    ELSE IF value.t = "arr"
         THEN Flattened(value.items[i], level + 1) \o FlattenedItems(value, i + 1, level)
         ELSE <<value.items[i].key>> \o Flattened(value.items[i].value, level + 1)
              \o FlattenedItems(value, i + 1, level)
\* a .json file that is there and can be read
JsonFile ==
    /\ probe.op = "extract_text_from_file"
    /\ probe.file.name.suffix = ".json"
    /\ InSource(probe.file)
    /\ probe.file.ok
\* ... which json.loads parses
JsonRead == JsonFile /\ probe.file.doc.kind = "value"
\* ... which is JSON nested beyond the interpreter's recursion limit
JsonTooDeep == JsonFile /\ probe.file.doc.kind = "too_deep"
C20_JsonJoinedBySpaces ==
    /\ JsonRead => probe.result = Some(Join(Flattened(probe.file.doc.value, 0), 1))
    /\ JsonTooDeep => probe.result.some

\* the fragments occur in the text in that order, one after the other
RECURSIVE InOrder(_, _, _, _)
InOrder(text, fragments, i, from) ==
    \/ i > Len(fragments)
    \/ \E at \in from..(Len(text) - Len(fragments[i]) + 1) :
          /\ SubSeq(text, at, at + Len(fragments[i]) - 1) = fragments[i]
          /\ InOrder(text, fragments, i + 1, at + Len(fragments[i]))
\* the written-out text of the documents read in SpecExtract
JsonExpected(value) ==
    IF value = JsonExample THEN <<"a", " ", "1", " ", "b", " ", "x", " ", "y">>
    ELSE IF value = JObj(<<Item(<<"a">>, JStr(<<" ">>))>>) THEN <<"a">>
    ELSE IF value = JArr(<<JNull, JBool(TRUE), JNum(-12), JStr(<<>>)>>)
         THEN <<"T", "r", "u", "e", " ", "-", "1", "2">>
    ELSE IF value = JStr(<<"x">>) THEN <<"x">>
    ELSE IF value = JObj(<<>>) THEN <<>>
    ELSE IF value = Nest(JStr(<<"x">>), 32) THEN <<"x">>
    ELSE IF value = Nest(JStr(<<"x">>), 33) THEN <<>>
    ELSE <<"k", " ", "a">>

\* C20, amended: when json.loads parses the document, the fragments are
\* joined by single spaces and the joined string is stripped of leading and
\* trailing white space; the example {"a": 1, "b": ["x", "y"]} gives a string
\* containing a, 1, b, x, y in that order; a value at nesting level 33 leaves
\* no fragment and the extraction does not fail.  A document nested beyond
\* the interpreter's recursion limit, or holding an integer literal beyond
\* its digit limit, gives None.
C20_JsonJoinedAndStripped ==
    /\ JsonRead
       => /\ probe.result = Some(Strip(Join(Flattened(probe.file.doc.value, 0), 1)))
          /\ probe.result = Some(JsonExpected(probe.file.doc.value))
          /\ probe.file.doc.value = JsonExample
                 => InOrder(probe.result.text, <<<<"a">>, <<"1">>, <<"b">>, <<"x">>, <<"y">>>>, 1, 1)
    /\ (JsonFile /\ probe.file.doc.kind \in {"too_deep", "huge_int"}) => probe.result = None
\* a document whose only scalar is at level 33 is read as the empty string
C20_Witness ==
    /\ JsonRead
    /\ probe.file.doc.value = Nest(JStr(<<"x">>), 33)
    /\ probe.result = Some(<<>>)

(***************************************************************************)
(* Run statistics.                                                         *)
(***************************************************************************)
DecidedByML == Cardinality({i \in 1..Len(history) : history[i].decided_by = "ml"})
DecidedByRules == Cardinality({i \in 1..Len(history) : history[i].decided_by /= "ml"})

\* method_used as sort_all computes it from its two counters
MethodUsedFollowsCounters ==
    (pc = "done" /\ stats.returned /\ stats.has_counts)
    => /\ stats.ml_count > stats.rules_count => stats.method_used = "ML"
       /\ (stats.rules_count >= stats.ml_count /\ stats.rules_count > 0)
              => stats.method_used = "rules"
       /\ stats.method_used /= "none"

\* C21: method_used is 'ML' if more files were classified by the ML model
\* than by the rules, 'rules' if the number classified by the rules is at
\* least the number classified by ML and not zero, and 'none' if and only if
\* no file was processed; a run over a missing or empty source directory (the
\* scan finds nothing) returns total = 0 and method_used = 'none'.
C21_MethodUsed ==
    (pc = "done" /\ stats.returned)
    => /\ DecidedByML > DecidedByRules => stats.method_used = "ML"
       /\ (DecidedByRules >= DecidedByML /\ DecidedByRules > 0)
              => stats.method_used = "rules"
       /\ stats.method_used = "none" <=> Len(files) = 0
       /\ Len(files) = 0 => stats.total = 0 /\ stats.method_used = "none"

(***************************************************************************)
(* Rule scores.                                                            *)
(***************************************************************************)
\* category i of the configuration is not other and its score for the text
\* reaches min_confidence_score
Reaches(text, i) ==
    /\ categories[i].name /= "other"
    /\ CategoryScore(text, categories[i].name) >= min_confidence_score

\* the result is category i: the highest score among those that reach the
\* minimum, and the first of the configured order with that score
IsFirstHighest(text, result, i) ==
    /\ Reaches(text, i)
    /\ result.category = categories[i].name
    /\ result.confidence = Score(CategoryScore(text, categories[i].name))
    /\ \A j \in 1..Len(categories) :
          Reaches(text, j)
          => /\ CategoryScore(text, categories[j].name)
                    <= CategoryScore(text, categories[i].name)
             /\ j < i => CategoryScore(text, categories[j].name)
                             < CategoryScore(text, categories[i].name)

RulesAsked == probe.op = "categorize_with_rules"
SomeReaches(text) == \E i \in 1..Len(categories) : Reaches(text, i)

\* C22: among the categories whose score reaches min_confidence_score,
\* categorize_with_rules returns the one with the highest score, the first in
\* the configured category order when several share it, and the returned
\* confidence is that category's score.
C22_FirstHighestScore ==
    (RulesAsked /\ SomeReaches(probe.text))
    => \E i \in 1..Len(categories) : IsFirstHighest(probe.text, probe.result, i)

\* C22, amended: for a non-empty text, among the categories whose score
\* reaches min_confidence_score, categorize_with_rules returns the one with
\* the highest score, the first in the configured category order when several
\* share it, with that category's score as confidence; for the empty text it
\* returns ('other', 0.0) whatever min_confidence_score is.
C22_FirstHighestScoreOfText ==
    /\ (RulesAsked /\ Len(probe.text) > 0 /\ SomeReaches(probe.text))
       => \E i \in 1..Len(categories) : IsFirstHighest(probe.text, probe.result, i)
    /\ (RulesAsked /\ Len(probe.text) = 0) => probe.result = Result("other", Score(0))
C22_Witness ==
    /\ RulesAsked
    /\ Len(probe.text) > 0
    /\ \E i \in 1..Len(categories) : \E j \in (i + 1)..Len(categories) :
          /\ IsFirstHighest(probe.text, probe.result, i)
          /\ Reaches(probe.text, j)
          /\ CategoryScore(probe.text, categories[j].name)
                 = CategoryScore(probe.text, categories[i].name)

\* the score of the text for the keywords ks from keyword i on, in tenths:
\* count * weight, and count * 0.2 more when count exceeds 1
RECURSIVE ClaimedScore(_, _, _)
ClaimedScore(text, ks, i) ==
    IF i > Len(ks) THEN 0
    ELSE LET count == Count(Lower(text), ks[i].kw)
         IN  count * ks[i].weight + (IF count > 1 THEN count * 2 ELSE 0)
             + ClaimedScore(text, ks, i + 1)

Repeated == {<<"w", "w">>, <<"W", "w">>, <<"w", "W">>, <<"W", "W">>}

\* C23: the rule score of a category other than other is the sum over its
\* weighted keywords of count * weight, plus count * 0.2 for each keyword
\* whose count exceeds 1, with count the number of occurrences in the
\* lowercased text (two occurrences of a keyword of weight 2.0 score 4.4);
\* the keywords of the category other contribute to no result.
C23_RuleScore ==
    RulesAsked
    => /\ probe.result.category /= "other"
          => probe.result.confidence
                 = Score(ClaimedScore(probe.text,
                                      get_weighted_keywords(probe.result.category), 1))
       /\ probe.result.category = "other" => probe.result.confidence = Score(0)
       /\ (probe.text \in Repeated /\ Len(categories) > 0)
          => probe.result = Result("work", Score(44))
       /\ (probe.text = <<"x">> /\ min_confidence_score > 0)
          => probe.result = Result("other", Score(0))
C23_Witness ==
    /\ RulesAsked
    /\ probe.text = <<"W", "w">>
    /\ probe.result = Result("work", Score(44))

(***************************************************************************)
(* The nearest reference vector.                                           *)
(***************************************************************************)
PredictAsked == probe.op = "predict_category"
SimilarityTo(text_vector, i) ==
    cosine_similarity(text_vector.sum, ml.category_vectors[i].vector)

\* the result is reference vector i: no similarity is greater, every earlier
\* one is smaller, and the returned value is that similarity, within [-1, 1]
IsNearest(text_vector, result, i) ==
    /\ result.category = ml.category_vectors[i].category
    /\ result.confidence = SimilarityTo(text_vector, i)
    /\ \A j \in 1..Len(ml.category_vectors) :
          /\ ~ConfGT(SimilarityTo(text_vector, j), SimilarityTo(text_vector, i))
          /\ j < i => ConfGT(SimilarityTo(text_vector, i), SimilarityTo(text_vector, j))
    /\ ~ConfGT(result.confidence, One)
    /\ ~ConfGT(MinusOne, result.confidence)

CanPredict(text_vector) ==
    ml.is_trained /\ text_vector.some /\ Len(ml.category_vectors) > 0

NearestOrNone(text_vector, result) ==
    CanPredict(text_vector)
    => \E i \in 1..Len(ml.category_vectors) : IsNearest(text_vector, result, i)

\* C24: when the model is trained, the text vector exists and at least one
\* reference vector exists, predict_category returns a key of the
\* reference-vector map, never None, whose cosine similarity to the text
\* vector is the maximum over all reference vectors, the first such key on
\* ties, with exactly that similarity, which lies in [-1, 1].
C24_NearestReference ==
    PredictAsked => NearestOrNone(text_to_vector(ml, probe.text), probe.result)

\* the same for the text vectors some reference vector is not opposite to
SomeAboveMinusOne(text_vector) ==
    CanPredict(text_vector)
    => \E i \in 1..Len(ml.category_vectors) :
           ConfGT(SimilarityTo(text_vector, i), MinusOne)
NearestUnlessAllOpposite ==
    (PredictAsked /\ SomeAboveMinusOne(text_to_vector(ml, probe.text)))
    => NearestOrNone(text_to_vector(ml, probe.text), probe.result)

\* C25: the dimension-mismatch warning of the cosine similarity is logged at
\* most once per process, over any number of comparisons, classifier
\* instances and sort runs inside the process.
C25_OneShapeWarningPerProcess == shape_warnings <= 1

\* what the flag does give: comparisons on one instance warn at most once
WarnedImpliesLogged == _shape_warning_emitted => shape_warnings >= 1

(***************************************************************************)
(* The counters of a run.                                                  *)
(***************************************************************************)
RECURSIVE SumOver(_, _)
SumOver(counts, cs) ==
    IF cs = {} THEN 0
    ELSE LET c == CHOOSE x \in cs : TRUE
         IN  counts[c] + SumOver(counts, cs \ {c})

WithResult(result) == Cardinality({i \in 1..Len(history) : history[i].result = result})

FoundFiles == pc = "done" /\ stats.returned /\ Len(files) >= 1

\* C26: for every run that found at least one file, the returned statistics
\* satisfy total = sorted + skipped + failed and the by_category counts sum to
\* sorted; every scanned file contributes to exactly one of sorted, skipped,
\* failed.
C26_CountersAddUp ==
    FoundFiles
    => /\ stats.total = stats.sorted + stats.skipped + stats.failed
       /\ SumOver(stats.by_category, AllCategories) = stats.sorted
       /\ stats.total = Len(files)
       /\ Len(history) = Len(files)
       /\ \A i \in 1..Len(history) : history[i].result \in {"sorted", "skipped", "failed"}
       /\ stats.sorted = WithResult("sorted")
       /\ stats.skipped = WithResult("skipped")
       /\ stats.failed = WithResult("failed")
C26_Witness ==
    /\ FoundFiles
    /\ stats.total = MaxFiles
    /\ stats.sorted = 1
    /\ stats.failed = 1

PlacedUnder(c) ==
    Cardinality({i \in 1..Len(history) :
                    history[i].result = "sorted" /\ history[i].dest.dir = c})

\* C27: for every category c, by_category[c] in the returned statistics is the
\* number of files this run placed under target_dir/c; the category recorded
\* for a file in the statistics is the category of the folder it was put in.
C27_CountsFollowPlacement ==
    (pc = "done" /\ stats.returned)
    => /\ \A c \in AllCategories : stats.by_category[c] = PlacedUnder(c)
       /\ \A i \in 1..Len(history) :
             history[i].result = "sorted" => history[i].category = history[i].dest.dir

(***************************************************************************)
(* Files already in the target tree.                                       *)
(***************************************************************************)
\* every file of the target tree is still there with the same content
NothingClobbered ==
    \A p \in DOMAIN target : p \in DOMAIN target' /\ target'[p] = target[p]

\* C28: during a sequential run under policy skip or rename, no file that is
\* in the target tree when a file is placed, whether it was there before the
\* run or was placed earlier in the run, is overwritten or replaced.
C28_SkipAndRenameKeepFiles ==
    [][(conflict_resolution \in {"skip", "rename"}) => NothingClobbered]_vars
C28_Witness ==
    /\ conflict_resolution = "rename"
    /\ \E i \in 1..Len(history) :
          /\ history[i].result = "sorted"
          /\ history[i].dest /= PathOf(history[i].placed_in, history[i].file.name)
          /\ Exists(history[i].dest)
          /\ Exists(PathOf(history[i].placed_in, history[i].file.name))
          /\ target[PathOf(history[i].placed_in, history[i].file.name)] = OldData

\* C29: for every file and every category the classification can decide for
\* it (a rule category, a key of the loaded reference vectors, or the fallback
\* other), the folder target_dir/<category> was created by
\* _create_category_folders before the file is placed, so that no placement
\* fails for a missing category folder, whatever the configuration.
C29_CategoryFolderCreated ==
    \A i \in 1..Len(history) :
        /\ history[i].placed_in \in folders
        /\ history[i].result = "failed" => history[i].dest.dir \in folders

(***************************************************************************)
(* The sort button.                                                        *)
(***************************************************************************)
Alive == {w \in 1..Len(workers) : workers[w].at /= "exited"}

\* no two workers are inside the try block at a time
OneSorterAtATime ==
    Cardinality({w \in 1..Len(workers) : workers[w].at \notin {"emit", "exited"}}) <= 1

\* a click made while _is_sorting is set starts no worker
IgnoredWhileSorting ==
    [][(_is_sorting /\ probe'.calls = probe.calls + 1 /\ probe'.op = "sortFiles")
          => workers' = workers]_vars

\* every worker that was started emits sortingFinished in the end
EveryRunFinishes ==
    \A n \in 1..MaxSlots :
        (Len(workers) >= n) ~> (Len(workers) >= n /\ workers[n].at = "exited")

\* C30: for any interleaving of sortFiles calls on the GUI thread with the
\* worker thread, a call made while a run is in progress starts no second
\* worker, and the signals alternate strictly: after a sortingStarted no
\* further sortingStarted is emitted before the sortingFinished of that run
\* (every run is followed by its sortingFinished with _is_sorting reset, also
\* when the run raises).
C30_SignalsAlternate ==
    /\ Cardinality(Alive) <= 1
    /\ \A i \in 1..Len(signals) :
          signals[i] = IF i % 2 = 1 THEN "sortingStarted" ELSE "sortingFinished"

====
